---- MODULE Spec2Model ----
(***************************************************************************)
(* LeakHound (GitLeaksAsyncScanner): the semaphore-bounded fetcher with    *)
(* its retry loop, the repository task built on it, cancellation of one    *)
(* task by the skip signal, and the dedup pass of the report step.         *)
(***************************************************************************)
EXTENDS Integers, Sequences, FiniteSets, TLC

\* ------------------------------------------------------------------ bounds
\* The repositories main creates one process_repo task for (repos).
Repos == {"octo/alpha", "octo/beta"}
\* Largest number of blob entries a tree listing returns.
NumFiles == 1
\* The concurrency argument of GitLeaksAsyncScanner (the semaphore's size).
Concurrency == 1

\* Largest number of commits process_repo walks, and of match records in one
\* repo_dict (HEAD and commits together).
MaxCommits == 3
MaxRecords == 3

Tasks == Repos

\* Fetch calls of a task: <<t, 0>> is the tree listing (_fetch_json called by
\* fetch_file_list), <<t, i>> with i >= 1 is the content of file i
\* (_fetch_text called by scan_file inside the gather of scan_repository).
Fetchers == Tasks \X (0..NumFiles)

Kind(f) == IF f[2] = 0 THEN "json" ELSE "text"

\* ---------------------------------------------------------------- responses
\* An HTTP response as the fetcher reads it: the status, the value of the
\* X-RateLimit-Remaining header ("absent" when the header is missing) and,
\* for a text body, whether it decodes.
NoResp == [status |-> 0, remaining |-> "absent", decodes |-> TRUE]

Responses ==
    { [status |-> 200, remaining |-> "1", decodes |-> TRUE],
      [status |-> 200, remaining |-> "1", decodes |-> FALSE],
      [status |-> 409, remaining |-> "1", decodes |-> TRUE],
      [status |-> 404, remaining |-> "1", decodes |-> TRUE],
      [status |-> 500, remaining |-> "absent", decodes |-> TRUE],
      [status |-> 403, remaining |-> "absent", decodes |-> TRUE],
      [status |-> 403, remaining |-> "0", decodes |-> TRUE],
      [status |-> 403, remaining |-> "1", decodes |-> TRUE] }

\* int(resp.headers.get("X-RateLimit-Remaining", "0"))
HeaderInt(h) ==
    CASE h = "absent" -> 0
      [] h = "0" -> 0
      [] h = "1" -> 1

\* Variant: the test of the header's value is lost, only a missing header
\* counts as rate limiting.
RateLimitedMissingOnly(r) ==
    r.status = 403 /\ r.remaining = "absent"

\* Variant: every 403 counts as rate limiting, whatever the header says.
RateLimitedAny403(r) ==
    r.status = 403

\* Variant: only a header that reads 0 counts as rate limiting, a 403
\* without the header is an ordinary failure.
RateLimitedHeaderZero(r) ==
    r.status = 403 /\ r.remaining = "0"

\* resp.status == 403 and ("X-RateLimit-Remaining" not in resp.headers or
\*                         int(resp.headers.get(...)) == 0)
RateLimited(r) ==
    r.status = 403 /\ (r.remaining = "absent" \/ HeaderInt(r.remaining) = 0)

\* Variant: a 409 falls into the cool-down and is retried.
fetch_json_conflict_retried(r) ==
    IF r.status = 409 THEN "sleep"
    ELSE IF RateLimited(r) THEN "sleep"
    ELSE IF r.status = 200 THEN "body"
    ELSE "empty"

\* What one pass through the body of `async with session.get(...) as resp`
\* does with the response: "sleep" is the cool-down followed by continue, the
\* other outcomes are the value returned.
fetch_json(r) ==
    IF r.status = 409 THEN "empty"
    ELSE IF RateLimited(r) THEN "sleep"
    ELSE IF r.status = 200 THEN "body"
    ELSE "empty"

fetch_text(r) ==
    IF r.status = 409 THEN "absent"
    ELSE IF RateLimited(r) THEN "sleep"
    ELSE IF r.status = 200 THEN (IF r.decodes THEN "body" ELSE "absent")
    ELSE "absent"

Outcome(f, r) == IF Kind(f) = "json" THEN fetch_json(r) ELSE fetch_text(r)

\* ------------------------------------------------------------------- state
VARIABLES
    semValue,   \* self.semaphore: the number of free slots
    holds,      \* the fetch calls inside `async with self.semaphore`
    fpc,        \* position of each fetch call
    resp,       \* the response a fetch call is handling (NoResp when none)
    result,     \* the value a fetch call returned ("none" while it has not)
    taskPc,     \* position of each repository task
    nfiles,     \* len(files) of each task once the tree listing returned
    cancelReq,  \* tasks on which cancel() was called
    repo_dict,  \* one repository's result: results (HEAD), commit_results
    scanned,    \* repo_dict as process_repo returned it (before the report)
    rpc,        \* position of the walk that builds repo_dict
    all_results,  \* the batch: the repo results main hands to the report
    all_scanned,  \* the batch as main collected it (before the report)
    bpc,        \* position of the batch
    tstate,     \* state of each repository task as main's loop sees it
    ret,        \* the repo_dict a task returned (NoReturn when it has not)
    remaining_tasks,  \* main: the tasks not yet accounted for
    main_results,  \* main: `results`, the repo_dicts of finished tasks
    pbar,       \* main: the progress count
    skip_task,  \* main: the listener for the skip signal
    signals,    \* number of skip signals received so far
    task_to_cancel,   \* main: the task being skipped, "none" otherwise
    skipped,    \* the tasks main's loop has called cancel() on
    mpc,        \* position of main
    ppc,        \* position of process_repo for one repository
    file_list,  \* the resolved file list of the revision being scanned
    child,      \* state of the scan of each file of file_list
    finished,   \* the files of file_list in the order their scans ended
    head_results,   \* repo_dict["results"]
    repo_commits,   \* the commit_results list process_repo is building
    todo,       \* entries of commit_list not yet scanned
    cancel_called,  \* cancel() was called on the task
    cancelled_at,   \* where the task was when cancel() was called
    commit_list,    \* the commit ids in the order the source returned them
    reported,       \* the repository after the report's dedup pass
    answer,     \* the latest listing or detail _fetch_json gave process_repo
    content,    \* create_advanced_snippet: the text being scanned
    match_obj,  \* create_advanced_snippet: the match, [start, end)
    context,    \* create_advanced_snippet: characters kept on each side
    snippet,    \* the snippet returned (<<>> before the call)
    spc,        \* position of the snippet call
    source,     \* fetch_all_commits: the pages the source holds
    page,       \* fetch_all_commits: page
    all_commits,  \* fetch_all_commits: commits
    requested,  \* the page indices asked of the source, in order
    gpc,        \* position of fetch_all_commits
    ref,        \* the revision whose files are resolved: "HEAD" or "commit"
    commit_detail,  \* scan_commit: the body fetch_commit_details returned
    tree_body,  \* the body the tree listing returned
    selected,   \* the files the revision's scan is started on
    lpc,        \* position of the file resolution
    recorded,   \* process_repo: the results and date of the commit's entry
    file_text,  \* the content of one file, as each scanning path reads it
    patterns,   \* self.patterns: the names of the loaded patterns, in order
    head_scan,  \* what scan_file made of the content
    commit_scan,    \* what scan_file_commit made of the content
    local_scan, \* what process_local_folder made of the content
    responses   \* what the repository answers to each request of a task

fetchVars == <<semValue, holds, fpc, resp, result, taskPc, nfiles, cancelReq>>
dedupVars == <<repo_dict, scanned, rpc>>
batchVars == <<all_results, all_scanned, bpc>>
mainVars == <<tstate, ret, remaining_tasks, main_results, pbar, skip_task,
              signals, task_to_cancel, skipped, mpc>>
walkVars == <<commit_list, reported, answer>>
repoVars == <<ppc, file_list, child, finished, head_results, repo_commits,
              todo, cancel_called, cancelled_at, walkVars>>
snippetVars == <<content, match_obj, context, snippet, spc>>
pageVars == <<source, page, all_commits, requested, gpc>>
filesVars == <<ref, commit_detail, tree_body, selected, lpc, recorded>>
scanVars == <<file_text, patterns, head_scan, commit_scan, local_scan>>
vars == <<fetchVars, dedupVars, batchVars, mainVars, repoVars, snippetVars,
          pageVars, filesVars, scanVars, responses>>

\* What the actions of one part of the program leave alone.
pureVars == <<snippetVars, pageVars, filesVars, scanVars, responses>>
outsideFetch == <<dedupVars, batchVars, mainVars, repoVars, pureVars>>
outsideDedup == <<fetchVars, batchVars, mainVars, repoVars, pureVars>>
outsideBatch == <<fetchVars, dedupVars, mainVars, repoVars, pureVars>>
outsideMain == <<fetchVars, dedupVars, batchVars, repoVars, pureVars>>
outsideRepo == <<fetchVars, dedupVars, batchVars, mainVars, pureVars>>
outsideSnippet == <<fetchVars, dedupVars, batchVars, mainVars, repoVars,
                    pageVars, filesVars, scanVars, responses>>
outsidePages == <<fetchVars, dedupVars, batchVars, mainVars, repoVars,
                  snippetVars, filesVars, scanVars, responses>>
outsideFiles == <<fetchVars, dedupVars, batchVars, mainVars, repoVars,
                  snippetVars, pageVars, scanVars, responses>>
outsideScan == <<fetchVars, dedupVars, batchVars, mainVars, repoVars,
                 snippetVars, pageVars, filesVars, responses>>

InProgress == {"acquire", "inflight", "rl_sleep", "err_sleep"}
Running(t) == taskPc[t] \in {"fetch_file_list", "gather"}

\* A fetch call at "returned" has its return value in hand and its caller has
\* not yet run on: the event loop runs a coroutine up to its next await, so
\* nothing else is scheduled until the caller has taken the value.
Stepping == \E f \in Fetchers : fpc[f] = "returned"

EmptyRepo == [results |-> <<>>, commit_results |-> <<>>]

InitFetch ==
    /\ semValue = Concurrency
    /\ holds = {}
    /\ fpc = [f \in Fetchers |-> IF f[2] = 0 THEN "acquire" ELSE "idle"]
    /\ resp = [f \in Fetchers |-> NoResp]
    /\ result = [f \in Fetchers |-> "none"]
    /\ taskPc = [t \in Tasks |-> "fetch_file_list"]
    /\ nfiles = [t \in Tasks |-> 0]
    /\ cancelReq = [t \in Tasks |-> FALSE]

InitWalk(pc) ==
    /\ repo_dict = EmptyRepo
    /\ scanned = EmptyRepo
    /\ rpc = pc

InitBatch(pc) ==
    /\ all_results = <<>>
    /\ all_scanned = <<>>
    /\ bpc = pc

\* main's loop over repos: one task per repository.
repo_tasks == Repos \cup {"octo/gamma"}

NoReturn == [repo_full_name |-> "none"]

InitMain(pc) ==
    /\ tstate = [t \in repo_tasks |-> "Pending"]
    /\ ret = [t \in repo_tasks |-> NoReturn]
    /\ remaining_tasks = repo_tasks
    /\ main_results = <<>>
    /\ pbar = 0
    /\ skip_task = "waiting"
    /\ signals = 0
    /\ task_to_cancel = "none"
    /\ skipped = {}
    /\ mpc = pc

MaxScanFiles == 2
\* The commit ids a source returns.
Shas == {"c1", "c2"}

InitRepo(pc) ==
    /\ ppc = pc
    /\ file_list = <<>>
    /\ child = [i \in 1..MaxScanFiles |-> "idle"]
    /\ finished = <<>>
    /\ head_results = <<>>
    /\ repo_commits = <<>>
    /\ todo = 0
    /\ cancel_called = FALSE
    /\ cancelled_at = "none"
    /\ commit_list = <<>>
    /\ reported = EmptyRepo
    /\ answer = "none"

\* A JSON body as the code reads it: whether it is truthy ({} is not),
\* whether it has a "tree" key, its tree entries, its changed files and
\* whether it names a tree sha.
EmptyBody ==
    [truthy |-> FALSE, tree_key |-> FALSE, tree |-> <<>>, files |-> <<>>,
     tree_sha |-> FALSE]

\* No snippet call in progress.
InitSnippetOff ==
    /\ content = <<>>
    /\ match_obj = [start |-> 0, end |-> 0]
    /\ context = 0
    /\ snippet = <<>>
    /\ spc = "off"

\* No commit listing in progress.
InitPagesOff ==
    /\ source = <<>>
    /\ page = 1
    /\ all_commits = <<>>
    /\ requested = <<>>
    /\ gpc = "off"

\* No file resolution in progress.
InitFilesOff ==
    /\ ref = "HEAD"
    /\ commit_detail = EmptyBody
    /\ tree_body = EmptyBody
    /\ selected = [scan |-> FALSE, file_list |-> <<>>]
    /\ lpc = "off"
    /\ recorded = [results |-> "none", commit_date |-> "none"]

\* A scanning path that has not run.
NotScanned == [done |-> FALSE, produced |-> FALSE, matches |-> <<>>]

\* No file is being scanned.
InitScanOff ==
    /\ file_text = <<>>
    /\ patterns = <<>>
    /\ head_scan = NotScanned
    /\ commit_scan = NotScanned
    /\ local_scan = NotScanned

\* A repository that answers nothing.
NoResponses ==
    [head |-> [out |-> "empty", scans |-> <<>>], flag |-> FALSE,
     list |-> <<>>, commits |-> <<>>]

InitPure ==
    /\ InitSnippetOff /\ InitPagesOff /\ InitFilesOff /\ InitScanOff
    /\ responses = NoResponses

Init ==
    /\ InitFetch /\ InitWalk("off") /\ InitBatch("off") /\ InitMain("off")
    /\ InitRepo("off") /\ InitPure

\* ------------------------------------------------------------ fetch actions
\* Variant: the request is issued without waiting for a free slot.
AcquireUnbounded(f) ==
    /\ ~Stepping
    /\ fpc[f] = "acquire"
    /\ ~cancelReq[f[1]]
    /\ semValue' = semValue - 1
    /\ holds' = holds \cup {f}
    /\ fpc' = [fpc EXCEPT ![f] = "inflight"]
    /\ UNCHANGED <<resp, result, taskPc, nfiles, cancelReq>>
    /\ UNCHANGED outsideFetch

\* `async with self.semaphore` entered and session.get issued.
Acquire(f) ==
    /\ ~Stepping
    /\ fpc[f] = "acquire"
    /\ ~cancelReq[f[1]]
    /\ semValue > 0
    /\ semValue' = semValue - 1
    /\ holds' = holds \cup {f}
    /\ fpc' = [fpc EXCEPT ![f] = "inflight"]
    /\ UNCHANGED <<resp, result, taskPc, nfiles, cancelReq>>
    /\ UNCHANGED outsideFetch

\* The response arrives and the body of the with-block runs up to its next
\* await (the cool-down) or its return.
Respond(f, r) ==
    /\ ~Stepping
    /\ fpc[f] = "inflight"
    /\ ~cancelReq[f[1]]
    /\ resp' = [resp EXCEPT ![f] = r]
    /\ IF Outcome(f, r) = "sleep"
       THEN /\ fpc' = [fpc EXCEPT ![f] = "rl_sleep"]
            /\ UNCHANGED <<semValue, holds, result>>
       ELSE /\ fpc' = [fpc EXCEPT ![f] = "returned"]
            /\ result' = [result EXCEPT ![f] = Outcome(f, r)]
            /\ semValue' = semValue + 1
            /\ holds' = holds \ {f}
    /\ UNCHANGED <<taskPc, nfiles, cancelReq>>
    /\ UNCHANGED outsideFetch

\* Variant: the except clause returns the empty result instead of sleeping
\* and retrying.
TransportErrorSurfaced(f) ==
    /\ ~Stepping
    /\ fpc[f] = "inflight"
    /\ ~cancelReq[f[1]]
    /\ fpc' = [fpc EXCEPT ![f] = "returned"]
    /\ result' = [result EXCEPT ![f] = IF Kind(f) = "json" THEN "empty" ELSE "absent"]
    /\ semValue' = semValue + 1
    /\ holds' = holds \ {f}
    /\ UNCHANGED <<resp, taskPc, nfiles, cancelReq>>
    /\ UNCHANGED outsideFetch

\* asyncio.TimeoutError or aiohttp.ClientError raised by the request: the
\* with-blocks are left and the except clause starts its cool-down.
TransportError(f) ==
    /\ ~Stepping
    /\ fpc[f] = "inflight"
    /\ ~cancelReq[f[1]]
    /\ fpc' = [fpc EXCEPT ![f] = "err_sleep"]
    /\ semValue' = semValue + 1
    /\ holds' = holds \ {f}
    /\ UNCHANGED <<resp, result, taskPc, nfiles, cancelReq>>
    /\ UNCHANGED outsideFetch

\* Variant: continue starts the loop over without leaving the with-blocks.
RateLimitWakeKeepsSlot(f) ==
    /\ ~Stepping
    /\ fpc[f] = "rl_sleep"
    /\ ~cancelReq[f[1]]
    /\ fpc' = [fpc EXCEPT ![f] = "acquire"]
    /\ resp' = [resp EXCEPT ![f] = NoResp]
    /\ UNCHANGED <<semValue, holds, result, taskPc, nfiles, cancelReq>>
    /\ UNCHANGED outsideFetch

\* The rate-limit cool-down ends: continue leaves the with-blocks and the
\* loop starts over.
RateLimitWake(f) ==
    /\ ~Stepping
    /\ fpc[f] = "rl_sleep"
    /\ ~cancelReq[f[1]]
    /\ fpc' = [fpc EXCEPT ![f] = "acquire"]
    /\ resp' = [resp EXCEPT ![f] = NoResp]
    /\ semValue' = semValue + 1
    /\ holds' = holds \ {f}
    /\ UNCHANGED <<result, taskPc, nfiles, cancelReq>>
    /\ UNCHANGED outsideFetch

\* The cool-down of the except clause ends: continue.
ErrorWake(f) ==
    /\ ~Stepping
    /\ fpc[f] = "err_sleep"
    /\ ~cancelReq[f[1]]
    /\ fpc' = [fpc EXCEPT ![f] = "acquire"]
    /\ UNCHANGED <<semValue, holds, resp, result, taskPc, nfiles, cancelReq>>
    /\ UNCHANGED outsideFetch

\* Variant: the cancelled call leaves without releasing the semaphore.
UnwindKeepsSlot(f) ==
    /\ ~Stepping
    /\ cancelReq[f[1]]
    /\ fpc[f] \in InProgress
    /\ fpc' = [fpc EXCEPT ![f] = "cancelled"]
    /\ resp' = [resp EXCEPT ![f] = NoResp]
    /\ UNCHANGED <<semValue, holds, result, taskPc, nfiles, cancelReq>>
    /\ UNCHANGED outsideFetch

\* CancelledError thrown into a fetch call at its await: the with-blocks are
\* left, `except asyncio.CancelledError: raise`.
Unwind(f) ==
    /\ ~Stepping
    /\ cancelReq[f[1]]
    /\ fpc[f] \in InProgress
    /\ fpc' = [fpc EXCEPT ![f] = "cancelled"]
    /\ resp' = [resp EXCEPT ![f] = NoResp]
    /\ semValue' = IF f \in holds THEN semValue + 1 ELSE semValue
    /\ holds' = holds \ {f}
    /\ UNCHANGED <<result, taskPc, nfiles, cancelReq>>
    /\ UNCHANGED outsideFetch

\* ------------------------------------------------------------- task actions
\* fetch_file_list returns and scan_repository starts the gather over the
\* files: n is the number of blob entries of the tree.
StartGather(t, n) ==
    /\ taskPc[t] = "fetch_file_list"
    /\ ~cancelReq[t]
    /\ fpc[<<t, 0>>] = "returned"
    /\ IF result[<<t, 0>>] = "body" THEN n \in 0..NumFiles ELSE n = 0
    /\ nfiles' = [nfiles EXCEPT ![t] = n]
    /\ fpc' = [f \in Fetchers |->
                 IF f = <<t, 0>> THEN "done"
                 ELSE IF f[1] = t /\ f[2] \in 1..n THEN "acquire" ELSE fpc[f]]
    /\ resp' = [resp EXCEPT ![<<t, 0>>] = NoResp]
    /\ taskPc' = [taskPc EXCEPT ![t] = "gather"]
    /\ UNCHANGED <<semValue, holds, result, cancelReq>>
    /\ UNCHANGED outsideFetch

\* scan_file takes the content returned by _fetch_text and returns: this
\* child of the gather is done.
scan_file(f) ==
    /\ f[2] >= 1
    /\ fpc[f] = "returned"
    /\ fpc' = [fpc EXCEPT ![f] = "done"]
    /\ resp' = [resp EXCEPT ![f] = NoResp]
    /\ UNCHANGED <<semValue, holds, result, taskPc, nfiles, cancelReq>>
    /\ UNCHANGED outsideFetch

\* The gather is complete; the task returns its repo_dict.
Complete(t) ==
    /\ ~Stepping
    /\ taskPc[t] = "gather"
    /\ ~cancelReq[t]
    /\ \A i \in 1..nfiles[t] : fpc[<<t, i>>] = "done"
    /\ taskPc' = [taskPc EXCEPT ![t] = "Completed"]
    /\ UNCHANGED <<semValue, holds, fpc, resp, result, nfiles, cancelReq>>
    /\ UNCHANGED outsideFetch

\* Variant: the skip cancels every task, as the KeyboardInterrupt handler
\* does.
CancelEveryTask(t) ==
    /\ ~Stepping
    /\ Running(t)
    /\ ~cancelReq[t]
    /\ cancelReq' = [u \in Tasks |-> TRUE]
    /\ UNCHANGED <<semValue, holds, fpc, resp, result, taskPc, nfiles>>
    /\ UNCHANGED outsideFetch

\* main: the skip signal is set and task_to_cancel.cancel() is called on one
\* task of pending.
Cancel(t) ==
    /\ ~Stepping
    /\ Running(t)
    /\ ~cancelReq[t]
    /\ cancelReq' = [cancelReq EXCEPT ![t] = TRUE]
    /\ UNCHANGED <<semValue, holds, fpc, resp, result, taskPc, nfiles>>
    /\ UNCHANGED outsideFetch

\* Every fetch call of the task has unwound: process_repo re-raises
\* CancelledError and the task is cancelled.
Cancelled(t) ==
    /\ ~Stepping
    /\ Running(t)
    /\ cancelReq[t]
    /\ \A f \in Fetchers : f[1] = t => fpc[f] \notin InProgress
    /\ taskPc' = [taskPc EXCEPT ![t] = "Cancelled"]
    /\ UNCHANGED <<semValue, holds, fpc, resp, result, nfiles, cancelReq>>
    /\ UNCHANGED outsideFetch

Next ==
    \/ \E f \in Fetchers : Acquire(f)
    \/ \E f \in Fetchers, r \in Responses : Respond(f, r)
    \/ \E f \in Fetchers : TransportError(f)
    \/ \E f \in Fetchers : RateLimitWake(f)
    \/ \E f \in Fetchers : ErrorWake(f)
    \/ \E f \in Fetchers : Unwind(f)
    \/ \E t \in Tasks, n \in 0..NumFiles : StartGather(t, n)
    \/ \E f \in Fetchers : scan_file(f)
    \/ \E t \in Tasks : Complete(t)
    \/ \E t \in Tasks : Cancel(t)
    \/ \E t \in Tasks : Cancelled(t)

Spec == Init /\ [][Next]_vars

\* ------------------------------------------------------- results and dedup
\* File paths in file-list order, pattern names and matched texts the scans
\* draw their match records from.
PathSeq == <<"a.txt", "b.txt">>
PatternNames == {"AWS Key"}
Texts == {"AKIA1", "AKIA2"}

\* A match record as the dedup pass reads it (pattern_name, match).
MatchRecords == [pattern_name : PatternNames, match : Texts]

MatchSeqs(n) == UNION {[1..k -> MatchRecords] : k \in 0..n}

\* Variant: scan_file returns its dict whether or not a pattern matched.
HasFile(file) == TRUE

\* scan_file: `if matches: return {...}`, None otherwise.
HasMatches(file) == file.matches # <<>>

\* scan_repository / scan_commit: one scan per file of the list, the results
\* kept in file-list order without the files that have no match (scan_file
\* returns None for them).
clean_results(ms) ==
    SelectSeq([i \in 1..Len(PathSeq) |->
                  [file_path |-> PathSeq[i], matches |-> ms[i]]],
              HasMatches)

RECURSIVE CountMatches(_)
CountMatches(files) ==
    IF files = <<>> THEN 0
    ELSE Len(Head(files).matches) + CountMatches(Tail(files))

RECURSIVE CountCommitMatches(_)
CountCommitMatches(commits) ==
    IF commits = <<>> THEN 0
    ELSE CountMatches(Head(commits).results) + CountCommitMatches(Tail(commits))

CountRecords(repo) ==
    CountMatches(repo.results) + CountCommitMatches(repo.commit_results)

\* The revision results a scan can produce with at most n match records.
Revisions(n) ==
    {rev \in {clean_results(ms) : ms \in [1..Len(PathSeq) -> MatchSeqs(n)]} :
        CountMatches(rev) <= n}

\* signature = (file["file_path"], match["pattern_name"], match["match"])
Signature(file_path, match) == <<file_path, match.pattern_name, match.match>>

FileSignatures(file) ==
    {Signature(file.file_path, file.matches[j]) : j \in 1..Len(file.matches)}

RevisionSignatures(files) ==
    UNION {FileSignatures(files[i]) : i \in 1..Len(files)}

\* Variant: the baseline is not seeded from HEAD.
HeadBaselineEmpty(results) == {}

\* The baseline after the loop over repo["results"].
HeadBaseline(results) == RevisionSignatures(results)

\* Variant: a surviving signature is not recorded.
AddSignatureForgotten(baseline, signature) == baseline

\* baseline.add(signature)
AddSignature(baseline, signature) == baseline \cup {signature}

\* The loop over file["matches"]: new_matches and the baseline after it.
RECURSIVE FilterMatches(_, _, _)
FilterMatches(file_path, matches, baseline) ==
    IF matches = <<>> THEN [new_matches |-> <<>>, baseline |-> baseline]
    ELSE LET signature == Signature(file_path, Head(matches))
             keep == signature \notin baseline
             rest == FilterMatches(file_path, Tail(matches),
                                   IF keep THEN AddSignature(baseline, signature)
                                   ELSE baseline)
         IN  [new_matches |-> IF keep THEN <<Head(matches)>> \o rest.new_matches
                              ELSE rest.new_matches,
              baseline |-> rest.baseline]

\* The loop over commit["results"]: new_commit_files and the baseline after.
RECURSIVE FilterFiles(_, _)
FilterFiles(files, baseline) ==
    IF files = <<>> THEN [new_commit_files |-> <<>>, baseline |-> baseline]
    ELSE LET file == Head(files)
             f == FilterMatches(file.file_path, file.matches, baseline)
             rest == FilterFiles(Tail(files), f.baseline)
         IN  [new_commit_files |->
                  IF f.new_matches # <<>>
                  THEN <<[file_path |-> file.file_path,
                          matches |-> f.new_matches]>> \o rest.new_commit_files
                  ELSE rest.new_commit_files,
              baseline |-> rest.baseline]

\* The loop over repo["commit_results"]: new_commit_results.
RECURSIVE FilterCommits(_, _)
FilterCommits(commits, baseline) ==
    IF commits = <<>> THEN <<>>
    ELSE LET commit == Head(commits)
         IN  IF commit.results = <<>>
             THEN FilterCommits(Tail(commits), baseline)
             ELSE LET f == FilterFiles(commit.results, baseline)
                  IN  IF f.new_commit_files # <<>>
                      THEN <<[commit EXCEPT !.results = f.new_commit_files]>>
                               \o FilterCommits(Tail(commits), f.baseline)
                      ELSE FilterCommits(Tail(commits), f.baseline)

\* Variant: HEAD goes through the same filter as a commit, so a signature
\* repeated inside HEAD is reported once.
DedupHeadFiltered(repo) ==
    [results |-> FilterFiles(repo.results, {}).new_commit_files,
     commit_results |-> FilterCommits(repo.commit_results,
                                      HeadBaseline(repo.results))]

\* Variant: the loop over the history starts at the second entry.
DedupSkipsNewest(repo) ==
    [results |-> repo.results,
     commit_results |-> FilterCommits(IF repo.commit_results = <<>> THEN <<>>
                                      ELSE Tail(repo.commit_results),
                                      HeadBaseline(repo.results))]

\* The dedup pass of generate_unified_html_report on one repo.
Dedup(repo) ==
    [results |-> repo.results,
     commit_results |-> FilterCommits(repo.commit_results,
                                      HeadBaseline(repo.results))]

\* process_repo: the HEAD scan sets repo_dict["results"].
ScanHead(rev) ==
    /\ rpc = "head"
    /\ repo_dict' = [repo_dict EXCEPT !.results = rev]
    /\ rpc' = "commits"
    /\ UNCHANGED scanned
    /\ UNCHANGED outsideDedup

\* process_repo: one turn of the loop over commit_list. scan_commit returns
\* None (scan = "none": results None, commit_date "unknown") or a dict with
\* the commit's results.
ScanCommit(scan, rev) ==
    /\ rpc = "commits"
    /\ Len(repo_dict.commit_results) < MaxCommits
    /\ scan = "none" => rev = <<>>
    /\ repo_dict' =
          [repo_dict EXCEPT !.commit_results =
              Append(@, [commit_id |-> Len(@) + 1,
                         results |-> rev,
                         commit_date |-> IF scan = "none" THEN "unknown"
                                         ELSE "dated"])]
    /\ UNCHANGED <<scanned, rpc>>
    /\ UNCHANGED outsideDedup

\* main hands the results to generate_unified_html_report, whose dedup pass
\* rewrites the repo in place.
generate_unified_html_report ==
    /\ rpc = "commits"
    /\ scanned' = repo_dict
    /\ repo_dict' = Dedup(repo_dict)
    /\ rpc' = "reported"
    /\ UNCHANGED outsideDedup

NextDedup ==
    \/ \E rev \in Revisions(MaxRecords) : ScanHead(rev)
    \/ \E scan \in {"none", "dict"},
          rev \in Revisions(MaxRecords - CountRecords(repo_dict)) :
              ScanCommit(scan, rev)
    \/ generate_unified_html_report

InitDedup ==
    /\ InitFetch /\ InitWalk("head") /\ InitBatch("off") /\ InitMain("off")
    /\ InitRepo("off") /\ InitPure

SpecDedup == InitDedup /\ [][NextDedup]_vars

\* ------------------------------------------------------------ the batch
MaxBatchCommits == 1

\* The baseline after the loop over one repo's commit_results.
RECURSIVE HistoryBaseline(_, _)
HistoryBaseline(commits, baseline) ==
    IF commits = <<>> THEN baseline
    ELSE HistoryBaseline(Tail(commits),
                         IF Head(commits).results = <<>> THEN baseline
                         ELSE FilterFiles(Head(commits).results,
                                          baseline).baseline)

\* Variant: one baseline for the whole batch, made before the loop over
\* all_results.
NewBaselineShared(carried) == carried

\* baseline = set(), the first statement of each turn of the loop over
\* all_results; `carried` is the baseline the previous turn ended with.
NewBaseline(carried) == {}

\* The dedup pass of generate_unified_html_report over all_results.
RECURSIVE DedupAll(_, _)
DedupAll(all, carried) ==
    IF all = <<>> THEN <<>>
    ELSE LET repo == Head(all)
             baseline == NewBaseline(carried) \cup HeadBaseline(repo.results)
         IN  <<[results |-> repo.results,
                commit_results |-> FilterCommits(repo.commit_results,
                                                 baseline)]>>
                 \o DedupAll(Tail(all),
                             HistoryBaseline(repo.commit_results, baseline))

RECURSIVE CountBatch(_)
CountBatch(all) ==
    IF all = <<>> THEN 0 ELSE CountRecords(Head(all)) + CountBatch(Tail(all))

\* main: all_repo_results.extend(results), seen one repository at a time: a
\* repository enters the batch with its HEAD results ...
CollectRepo(rev) ==
    /\ bpc = "collect"
    /\ Len(all_results) < Cardinality(Repos)
    /\ all_results' = Append(all_results, [EmptyRepo EXCEPT !.results = rev])
    /\ UNCHANGED <<all_scanned, bpc>>
    /\ UNCHANGED outsideBatch

\* ... and with the commits process_repo appended to its commit_results.
CollectCommit(scan, rev) ==
    /\ bpc = "collect"
    /\ all_results # <<>>
    /\ Len(all_results[Len(all_results)].commit_results) < MaxBatchCommits
    /\ scan = "none" => rev = <<>>
    /\ all_results' =
          [all_results EXCEPT ![Len(all_results)].commit_results =
              Append(@, [commit_id |-> Len(@) + 1,
                         results |-> rev,
                         commit_date |-> IF scan = "none" THEN "unknown"
                                         ELSE "dated"])]
    /\ UNCHANGED <<all_scanned, bpc>>
    /\ UNCHANGED outsideBatch

\* main: generate_unified_html_report(all_repo_results, ...).
ReportBatch ==
    /\ bpc = "collect"
    /\ all_results # <<>>
    /\ all_scanned' = all_results
    /\ all_results' = DedupAll(all_results, {})
    /\ bpc' = "reported"
    /\ UNCHANGED outsideBatch

NextBatch ==
    \/ \E rev \in Revisions(MaxRecords - CountBatch(all_results)) :
          CollectRepo(rev)
    \/ \E scan \in {"none", "dict"},
          rev \in Revisions(MaxRecords - CountBatch(all_results)) :
              CollectCommit(scan, rev)
    \/ ReportBatch

InitBatchSpec ==
    /\ InitFetch /\ InitWalk("off") /\ InitBatch("collect") /\ InitMain("off")
    /\ InitRepo("off") /\ InitPure

SpecBatch == InitBatchSpec /\ [][NextBatch]_vars

\* ------------------------------------------------------- main's task loop
MaxSignals == 2

Terminal == {"Completed", "Failed", "Cancelled"}

\* A task made by asyncio.create_task runs its first step once main awaits:
\* the tasks are on the loop's ready queue before asyncio.wait is entered.
TaskStarts(t) ==
    /\ mpc = "wait"
    /\ tstate[t] = "Pending"
    /\ tstate' = [tstate EXCEPT ![t] = "Running"]
    /\ UNCHANGED <<ret, remaining_tasks, main_results, pbar, skip_task, signals,
                   task_to_cancel, mpc>>
    /\ UNCHANGED <<skipped, outsideMain>>

\* process_repo returns repo_dict: HEAD results empty or not.
TaskCompletes(t, found) ==
    /\ mpc \in {"wait", "await_cancel"}
    /\ tstate[t] = "Running"
    /\ tstate' = [tstate EXCEPT ![t] = "Completed"]
    /\ ret' = [ret EXCEPT ![t] =
                  [repo_full_name |-> t,
                   results |-> IF found THEN <<"a.txt">> ELSE <<>>,
                   commit_results |-> <<>>]]
    /\ UNCHANGED <<remaining_tasks, main_results, pbar, skip_task, signals,
                   task_to_cancel, mpc>>
    /\ UNCHANGED <<skipped, outsideMain>>

\* An exception other than CancelledError leaves process_repo, whose only
\* handler is `except asyncio.CancelledError`.
TaskFails(t) ==
    /\ mpc \in {"wait", "await_cancel"}
    /\ tstate[t] = "Running"
    /\ tstate' = [tstate EXCEPT ![t] = "Failed"]
    /\ UNCHANGED <<ret, remaining_tasks, main_results, pbar, skip_task, signals,
                   task_to_cancel, mpc>>
    /\ UNCHANGED <<skipped, outsideMain>>

\* Variant: process_repo swallows the cancellation and returns what it has.
TaskUnwindsSwallowed(t) ==
    /\ tstate[t] = "Cancelling"
    /\ tstate' = [tstate EXCEPT ![t] = "Completed"]
    /\ ret' = [ret EXCEPT ![t] =
                  [repo_full_name |-> t, results |-> <<>>,
                   commit_results |-> <<>>]]
    /\ UNCHANGED <<remaining_tasks, main_results, pbar, skip_task, signals,
                   task_to_cancel, mpc>>
    /\ UNCHANGED <<skipped, outsideMain>>

\* The CancelledError thrown into the task leaves process_repo (re-raised at
\* the end of the function); its repo_dict is dropped with the frame.
TaskUnwinds(t) ==
    /\ tstate[t] = "Cancelling"
    /\ tstate' = [tstate EXCEPT ![t] = "Cancelled"]
    /\ UNCHANGED <<ret, remaining_tasks, main_results, pbar, skip_task, signals,
                   task_to_cancel, mpc>>
    /\ UNCHANGED <<skipped, outsideMain>>

\* wait_for_enter_or_status returns True: the listener task is done.
SkipSignal ==
    /\ mpc \in {"wait", "await_cancel"}
    /\ skip_task = "waiting"
    /\ signals < MaxSignals
    /\ skip_task' = "done"
    /\ signals' = signals + 1
    /\ UNCHANGED <<tstate, ret, remaining_tasks, main_results, pbar,
                   task_to_cancel, mpc>>
    /\ UNCHANGED <<skipped, outsideMain>>

\* The orders in which `for d in done` can visit the set.
Orders(S) ==
    {o \in [1..Cardinality(S) -> S] :
        \A i, j \in 1..Cardinality(S) : i # j => o[i] # o[j]}

\* for d in done: results.append(d.result()), CancelledError passed over;
\* any other exception of d.result() leaves the loop.
RECURSIVE Drain(_, _)
Drain(order, res) ==
    IF order = <<>> THEN [results |-> res, raised |-> FALSE]
    ELSE IF tstate[Head(order)] = "Completed"
         THEN Drain(Tail(order), Append(res, ret[Head(order)]))
    ELSE IF tstate[Head(order)] = "Cancelled"
         THEN Drain(Tail(order), res)
    ELSE [results |-> res, raised |-> TRUE]

\* One turn of `while remaining_tasks`, from the return of asyncio.wait to the
\* next await: the done tasks are drained and, when the listener is done and
\* a task is pending, one pending task gets cancel().
WaitReturns(order, tc) ==
    /\ mpc = "wait"
    /\ \A t \in repo_tasks : tstate[t] # "Pending"
    /\ LET done == {t \in remaining_tasks : tstate[t] \in Terminal}
           pending == remaining_tasks \ done
           drained == Drain(order, main_results)
       IN  /\ order \in Orders(done)
           /\ main_results' = drained.results
           /\ IF drained.raised
              THEN /\ tc = "none"
                   /\ mpc' = "aborted"
                   /\ UNCHANGED <<tstate, remaining_tasks, pbar,
                                  task_to_cancel, skipped>>
              ELSE /\ pbar' = pbar + Cardinality(done)
                   /\ remaining_tasks' = pending
                   /\ IF skip_task = "done" /\ pending # {}
                      THEN /\ tc \in pending
                           /\ tstate' = [tstate EXCEPT ![tc] = "Cancelling"]
                           /\ task_to_cancel' = tc
                           /\ skipped' = skipped \cup {tc}
                           /\ mpc' = "await_cancel"
                      ELSE /\ tc = "none"
                           /\ mpc' = IF pending = {} THEN "ended" ELSE "wait"
                           /\ UNCHANGED <<tstate, task_to_cancel, skipped>>
    /\ UNCHANGED <<ret, skip_task, signals>>
    /\ UNCHANGED outsideMain

\* Variant: the listener is not started again after a skip.
CancelAwaitedNoRearm ==
    /\ mpc = "await_cancel"
    /\ tstate[task_to_cancel] \in Terminal
    /\ IF tstate[task_to_cancel] = "Failed"
       THEN /\ mpc' = "aborted"
            /\ UNCHANGED <<remaining_tasks, pbar, skip_task, task_to_cancel>>
       ELSE /\ pbar' = pbar + 1
            /\ remaining_tasks' = remaining_tasks \ {task_to_cancel}
            /\ skip_task' = skip_task
            /\ task_to_cancel' = "none"
            /\ mpc' = IF remaining_tasks' = {} THEN "ended" ELSE "wait"
    /\ UNCHANGED <<tstate, ret, main_results, signals>>
    /\ UNCHANGED <<skipped, outsideMain>>

\* Variant: the skipped task stays in remaining_tasks.
CancelAwaitedKeepsTask ==
    /\ mpc = "await_cancel"
    /\ tstate[task_to_cancel] \in Terminal
    /\ IF tstate[task_to_cancel] = "Failed"
       THEN /\ mpc' = "aborted"
            /\ UNCHANGED <<remaining_tasks, pbar, skip_task, task_to_cancel>>
       ELSE /\ pbar' = pbar + 1
            /\ remaining_tasks' = remaining_tasks
            /\ skip_task' = "waiting"
            /\ task_to_cancel' = "none"
            /\ mpc' = "wait"
    /\ UNCHANGED <<tstate, ret, main_results, signals>>
    /\ UNCHANGED <<skipped, outsideMain>>

\* `await task_to_cancel` returns (CancelledError caught): the task is taken
\* off remaining_tasks, the progress count moves, a new listener is started.
CancelAwaited ==
    /\ mpc = "await_cancel"
    /\ tstate[task_to_cancel] \in Terminal
    /\ IF tstate[task_to_cancel] = "Failed"
       THEN /\ mpc' = "aborted"
            /\ UNCHANGED <<remaining_tasks, pbar, skip_task, task_to_cancel>>
       ELSE /\ pbar' = pbar + 1
            /\ remaining_tasks' = remaining_tasks \ {task_to_cancel}
            /\ skip_task' = "waiting"
            /\ task_to_cancel' = "none"
            /\ mpc' = IF remaining_tasks' = {} THEN "ended" ELSE "wait"
    /\ UNCHANGED <<tstate, ret, main_results, signals>>
    /\ UNCHANGED <<skipped, outsideMain>>

\* all_repo_results.extend(results); the report is generated unless the
\* batch is empty.
Report ==
    /\ mpc = "ended"
    /\ mpc' = IF main_results = <<>> THEN "nothing" ELSE "reported"
    /\ UNCHANGED <<tstate, ret, remaining_tasks, main_results, pbar, skip_task,
                   signals, task_to_cancel>>
    /\ UNCHANGED <<skipped, outsideMain>>

\* An exception that left main leaves asyncio.run, which calls cancel() on
\* every task that is not done and runs the loop until they have ended.
RunExits ==
    /\ mpc = "aborted"
    /\ tstate' = [t \in repo_tasks |->
                     IF tstate[t] = "Running" THEN "Cancelling" ELSE tstate[t]]
    /\ mpc' = "exited"
    /\ UNCHANGED <<ret, remaining_tasks, main_results, pbar, skip_task, signals,
                   task_to_cancel>>
    /\ UNCHANGED <<skipped, outsideMain>>

NextMain ==
    \/ \E t \in repo_tasks : TaskStarts(t)
    \/ \E t \in repo_tasks, found \in BOOLEAN : TaskCompletes(t, found)
    \/ \E t \in repo_tasks : TaskFails(t)
    \/ \E t \in repo_tasks : TaskUnwinds(t)
    \/ SkipSignal
    \/ \E order \in UNION {Orders(S) : S \in SUBSET repo_tasks},
          tc \in repo_tasks \cup {"none"} : WaitReturns(order, tc)
    \/ CancelAwaited
    \/ Report
    \/ RunExits

InitMainSpec ==
    /\ InitFetch /\ InitWalk("off") /\ InitBatch("off") /\ InitMain("wait")
    /\ InitRepo("off") /\ InitPure

SpecMain == InitMainSpec /\ [][NextMain]_vars

\* The event loop runs every task that is ready: a created task starts, a
\* task that got cancel() unwinds, asyncio.wait returns after its timeout of
\* 0.1 s at the latest, an awaited task that has ended resumes main, and main
\* and asyncio.run go on to their next await.
MainFairness ==
    /\ \A t \in repo_tasks : WF_vars(TaskStarts(t)) /\ WF_vars(TaskUnwinds(t))
    /\ WF_vars(\E order \in UNION {Orders(S) : S \in SUBSET repo_tasks},
                  tc \in repo_tasks \cup {"none"} : WaitReturns(order, tc))
    /\ WF_vars(CancelAwaited)
    /\ WF_vars(Report)
    /\ WF_vars(RunExits)

SpecMainLive == InitMainSpec /\ [][NextMain]_vars /\ MainFairness

\* ---------------------------------------------- process_repo, one repository
JsonCalls == {"check_rate_limit", "fetch_file_list", "fetch_commit_list",
              "list_commits", "fetch_commit_details", "fetch_tree"}
Gathers == {"head_gather", "commit_gather"}
Ended == {"Completed", "Failed", "Cancelled", "Reported"}

\* What _fetch_json hands back to its caller: a parsed body or {}.
JsonOutcomes == {"body", "empty"}

\* What a scan_file / scan_file_commit coroutine ends with: a dict (the file
\* has matches), None (no content or no match), or an exception.
ScanOutcomes == {"dict", "None", "raised"}

\* tasks = [self.scan_file(...) for fp in files]: the gather starts with one
\* scan per file of the list (paths are numbered in list order).
StartScans(n, pc) ==
    /\ file_list' = [k \in 1..n |-> k]
    /\ child' = [i \in 1..MaxScanFiles |-> IF i <= n THEN "pending" ELSE "idle"]
    /\ finished' = <<>>
    /\ ppc' = pc

\* Variant: the awaitables are collected as they complete.
gather_as_completed(list, outcome, order) ==
    [k \in 1..Len(order) |->
        [file_path |-> list[order[k]], outcome |-> outcome[order[k]]]]

\* asyncio.gather(*tasks, return_exceptions=True): one result per awaitable,
\* in the order of the awaitables, an exception standing as a result.
gather(list, outcome, order) ==
    [k \in 1..Len(list) |-> [file_path |-> list[k], outcome |-> outcome[k]]]

IsDict(r) == r.outcome = "dict"

\* Variant: one exception among the results voids the revision.
CleanResultsOrNothing(gathered) ==
    IF \E k \in 1..Len(gathered) : gathered[k].outcome = "raised" THEN <<>>
    ELSE SelectSeq(gathered, IsDict)

\* clean_results of scan_repository, the `results` loop of scan_commit: the
\* truthy results that are not exceptions.
CleanResults(gathered) == SelectSeq(gathered, IsDict)

\* Variant: the results are taken in the order the scans ended.
RevisionResultsAsFinished ==
    LET IsKept(i) == child[i] = "dict"
        kept == SelectSeq(finished, IsKept)
    IN  [k \in 1..Len(kept) |-> file_list[kept[k]]]

RevisionResults ==
    LET kept == CleanResults(gather(file_list, child, finished))
    IN  [k \in 1..Len(kept) |-> kept[k].file_path]

\* Variant: the loop takes the entries of commit_list from the end.
CommitFromEnd == commit_list[todo]

\* for commit in commit_list: the entry the loop is at.
CurrentCommit == commit_list[Len(commit_list) - todo + 1]

\* process_repo after one entry of commit_list: the next entry, or return.
AfterCommit == IF todo = 1 THEN "Completed" ELSE "fetch_commit_details"

\* Variant: a commit without data ends the task with an error.
AppendNoneAborts ==
    /\ ppc' = "Failed"
    /\ UNCHANGED <<repo_commits, todo>>

\* scan_commit returned None: the entry has results None, date "unknown".
AppendNone ==
    /\ repo_commits' = Append(repo_commits,
                              [commit_id |-> CurrentCommit,
                               results |-> <<>>, commit_date |-> "unknown"])
    /\ todo' = todo - 1
    /\ ppc' = AfterCommit

\* check_rate_limit returns (its value is not used).
RateLimitChecked(out) ==
    /\ ppc = "check_rate_limit"
    /\ ~cancel_called
    /\ ppc' = "fetch_file_list"
    /\ UNCHANGED <<file_list, child, finished, head_results, repo_commits,
                   todo, cancel_called, cancelled_at>>
    /\ UNCHANGED walkVars
    /\ UNCHANGED outsideRepo

\* fetch_file_list returns the blob paths ([] without a tree) and
\* scan_repository starts the gather.
FileListReturns(out, n) ==
    /\ ppc = "fetch_file_list"
    /\ ~cancel_called
    /\ out = "empty" => n = 0
    /\ StartScans(n, "head_gather")
    /\ answer' = IF out = "empty" THEN "absent" ELSE "data"
    /\ UNCHANGED <<head_results, repo_commits, todo, cancel_called,
                   cancelled_at, commit_list, reported>>
    /\ UNCHANGED outsideRepo

\* One scan of the gather ends.
ChildFinishes(i, outcome) ==
    /\ ppc \in Gathers
    /\ ~cancel_called
    /\ child[i] = "pending"
    /\ child' = [child EXCEPT ![i] = outcome]
    /\ finished' = Append(finished, i)
    /\ UNCHANGED <<ppc, file_list, head_results, repo_commits, todo,
                   cancel_called, cancelled_at>>
    /\ UNCHANGED walkVars
    /\ UNCHANGED outsideRepo

\* scan_repository returns clean_results; process_repo stores them and asks
\* for the newest commit.
HeadScanned ==
    /\ ppc = "head_gather"
    /\ ~cancel_called
    /\ \A i \in 1..Len(file_list) : child[i] \in ScanOutcomes
    /\ head_results' = RevisionResults
    /\ ppc' = "fetch_commit_list"
    /\ UNCHANGED <<file_list, child, finished, repo_commits, todo,
                   cancel_called, cancelled_at>>
    /\ UNCHANGED walkVars
    /\ UNCHANGED outsideRepo

\* fetch_commit_list(per_page=1) returns; with commit_scan_flag set the
\* commit list is asked for, otherwise process_repo returns.
CommitListReturns(out, commit_scan_flag) ==
    /\ ppc = "fetch_commit_list"
    /\ ~cancel_called
    /\ ppc' = IF commit_scan_flag THEN "list_commits" ELSE "Completed"
    /\ UNCHANGED <<file_list, child, finished, head_results, repo_commits,
                   todo, cancel_called, cancelled_at>>
    /\ UNCHANGED walkVars
    /\ UNCHANGED outsideRepo

\* The commit lists a source can return: distinct commit ids in any order.
CommitLists ==
    UNION {{l \in [1..k -> Shas] :
               \A i, j \in 1..k : i # j => l[i] # l[j]} :
           k \in 1..Cardinality(Shas)}

\* The commit list returns: the commits to scan in the source's order, or
\* none and process_repo returns.
CommitsListed(out, list) ==
    /\ ppc = "list_commits"
    /\ ~cancel_called
    /\ IF out = "body" THEN list \in CommitLists ELSE list = <<>>
    /\ commit_list' = list
    /\ todo' = Len(list)
    /\ ppc' = IF list = <<>> THEN "Completed" ELSE "fetch_commit_details"
    /\ UNCHANGED <<file_list, child, finished, head_results, repo_commits,
                   cancel_called, cancelled_at, reported, answer>>
    /\ UNCHANGED outsideRepo

\* scan_commit after fetch_commit_details: no detail, changed files that are
\* all removed, or no tree sha give None; n changed files start the gather;
\* a detail without files asks for the commit's tree.
CommitDetails(kind, n) ==
    /\ ppc = "fetch_commit_details"
    /\ ~cancel_called
    /\ kind \in {"empty", "removed", "no_tree_sha", "files", "tree"}
    /\ IF kind = "files" THEN n \in 1..MaxScanFiles ELSE n = 0
    /\ IF kind = "files"
       THEN /\ StartScans(n, "commit_gather")
            /\ UNCHANGED <<repo_commits, todo>>
       ELSE IF kind = "tree"
       THEN /\ ppc' = "fetch_tree"
            /\ UNCHANGED <<file_list, child, finished, repo_commits, todo>>
       ELSE /\ AppendNone
            /\ UNCHANGED <<file_list, child, finished>>
    /\ answer' = IF kind \in {"empty", "no_tree_sha"} THEN "absent" ELSE "data"
    /\ UNCHANGED <<head_results, cancel_called, cancelled_at, commit_list,
                   reported>>
    /\ UNCHANGED outsideRepo

\* scan_commit after the tree listing: None without data, else the gather
\* over the tree's blobs.
TreeReturns(out, n) ==
    /\ ppc = "fetch_tree"
    /\ ~cancel_called
    /\ out = "empty" => n = 0
    /\ IF out = "empty"
       THEN /\ AppendNone
            /\ UNCHANGED <<file_list, child, finished>>
       ELSE /\ StartScans(n, "commit_gather")
            /\ UNCHANGED <<repo_commits, todo>>
    /\ answer' = IF out = "empty" THEN "absent" ELSE "data"
    /\ UNCHANGED <<head_results, cancel_called, cancelled_at, commit_list,
                   reported>>
    /\ UNCHANGED outsideRepo

\* scan_commit returns its dict; process_repo appends the commit entry.
CommitScanned ==
    /\ ppc = "commit_gather"
    /\ ~cancel_called
    /\ \A i \in 1..Len(file_list) : child[i] \in ScanOutcomes
    /\ repo_commits' = Append(repo_commits,
                              [commit_id |-> CurrentCommit,
                               results |-> RevisionResults,
                               commit_date |-> "dated"])
    /\ todo' = todo - 1
    /\ ppc' = AfterCommit
    /\ UNCHANGED <<file_list, child, finished, head_results, cancel_called,
                   cancelled_at>>
    /\ UNCHANGED walkVars
    /\ UNCHANGED outsideRepo

\* An exception other than CancelledError and the transport errors leaves
\* _fetch_json (or the code reading its value) and process_repo.
JsonRaises ==
    /\ ppc \in JsonCalls
    /\ ~cancel_called
    /\ ppc' = "Failed"
    /\ answer' = "raised"
    /\ UNCHANGED <<file_list, child, finished, head_results, repo_commits,
                   todo, cancel_called, cancelled_at, commit_list, reported>>
    /\ UNCHANGED outsideRepo

\* main: task_to_cancel.cancel() on the task, at whatever await it is.
TaskCancel ==
    /\ ppc \notin Ended
    /\ ~cancel_called
    /\ cancel_called' = TRUE
    /\ cancelled_at' = ppc
    /\ UNCHANGED <<ppc, file_list, child, finished, head_results,
                   repo_commits, todo>>
    /\ UNCHANGED walkVars
    /\ UNCHANGED outsideRepo

\* The gather passes the cancellation on to a scan that has not ended.
ChildUnwinds(i) ==
    /\ ppc \in Gathers
    /\ cancel_called
    /\ child[i] = "pending"
    /\ child' = [child EXCEPT ![i] = "cancelled"]
    /\ UNCHANGED <<ppc, file_list, finished, head_results, repo_commits,
                   todo, cancel_called, cancelled_at>>
    /\ UNCHANGED walkVars
    /\ UNCHANGED outsideRepo

\* Variant: process_repo returns repo_dict from its CancelledError handler.
CancelSwallowed ==
    /\ ppc \notin Ended
    /\ cancel_called
    /\ \A i \in 1..Len(file_list) : child[i] # "pending"
    /\ ppc' = "Completed"
    /\ UNCHANGED <<file_list, child, finished, head_results, repo_commits,
                   todo, cancel_called, cancelled_at>>
    /\ UNCHANGED walkVars
    /\ UNCHANGED outsideRepo

\* CancelledError is raised at the await of process_repo (a fetch, or the
\* gather once its scans have unwound) and re-raised by its handler.
CancelRaised ==
    /\ ppc \notin Ended
    /\ cancel_called
    /\ \A i \in 1..Len(file_list) : child[i] # "pending"
    /\ ppc' = "Cancelled"
    /\ UNCHANGED <<file_list, child, finished, head_results, repo_commits,
                   todo, cancel_called, cancelled_at>>
    /\ UNCHANGED walkVars
    /\ UNCHANGED outsideRepo

\* The file results of a revision as the report reads them, every file
\* that has matches holding the same one secret in each revision.
AsFileResults(paths) ==
    [k \in 1..Len(paths) |->
        [file_path |-> paths[k],
         matches |-> <<[pattern_name |-> "AWS Key", match |-> "AKIA1"]>>]]

\* The repo_dict process_repo returns.
AsRepo ==
    [results |-> AsFileResults(head_results),
     commit_results |->
        [k \in 1..Len(repo_commits) |->
            [repo_commits[k] EXCEPT !.results = AsFileResults(@)]]]

\* main hands the returned repo_dict to generate_unified_html_report.
ReportRepo ==
    /\ ppc = "Completed"
    /\ reported' = Dedup(AsRepo)
    /\ ppc' = "Reported"
    /\ UNCHANGED <<file_list, child, finished, head_results, repo_commits,
                   todo, cancel_called, cancelled_at, commit_list, answer>>
    /\ UNCHANGED outsideRepo

NextRepo ==
    \/ \E out \in JsonOutcomes : RateLimitChecked(out)
    \/ \E out \in JsonOutcomes, n \in 0..MaxScanFiles : FileListReturns(out, n)
    \/ \E i \in 1..MaxScanFiles, outcome \in ScanOutcomes :
          ChildFinishes(i, outcome)
    \/ HeadScanned
    \/ \E out \in JsonOutcomes, flag \in BOOLEAN : CommitListReturns(out, flag)
    \/ \E out \in JsonOutcomes, list \in CommitLists \cup {<<>>} :
          CommitsListed(out, list)
    \/ \E kind \in {"empty", "removed", "no_tree_sha", "files", "tree"},
          n \in 0..MaxScanFiles : CommitDetails(kind, n)
    \/ \E out \in JsonOutcomes, n \in 0..MaxScanFiles : TreeReturns(out, n)
    \/ CommitScanned
    \/ JsonRaises
    \/ TaskCancel
    \/ \E i \in 1..MaxScanFiles : ChildUnwinds(i)
    \/ CancelRaised
    \/ ReportRepo

InitRepoSpec ==
    /\ InitFetch /\ InitWalk("off") /\ InitBatch("off") /\ InitMain("off")
    /\ InitRepo("check_rate_limit") /\ InitPure

SpecRepo == InitRepoSpec /\ [][NextRepo]_vars

\* ------------------------------------------------ create_advanced_snippet
\* A text is a sequence of one-character strings.  Texts are drawn over a
\* letter and two of the characters escape rewrites.
MaxLen == 3
MaxContext == 2
Chars == {"a", "<", "&"}
Contents == UNION { [1..n -> Chars] : n \in 1..MaxLen }

Max(a, b) == IF a >= b THEN a ELSE b
Min(a, b) == IF a <= b THEN a ELSE b

\* text[a:b] for 0 <= a and b <= len(text); empty when a >= b.
Slice(text, a, b) == SubSeq(text, a + 1, b)

\* markupsafe.escape on one character.
EscapeChar(c) ==
    CASE c = "&" -> <<"&", "a", "m", "p", ";">>
      [] c = "<" -> <<"&", "l", "t", ";">>
      [] c = ">" -> <<"&", "g", "t", ";">>
      [] c = "'" -> <<"&", "#", "3", "9", ";">>
      [] c = "\"" -> <<"&", "#", "3", "4", ";">>
      [] OTHER -> <<c>>

\* markupsafe.escape
RECURSIVE escape(_)
escape(text) ==
    IF text = <<>> THEN <<>> ELSE EscapeChar(Head(text)) \o escape(Tail(text))

\* Markup("<mark class='highlight'>") and Markup("</mark>")
MarkOpen ==
    <<"<", "m", "a", "r", "k", " ", "c", "l", "a", "s", "s", "=", "'", "h",
      "i", "g", "h", "l", "i", "g", "h", "t", "'", ">">>
MarkClose == <<"<", "/", "m", "a", "r", "k", ">">>
Ellipsis == <<".", ".", ".">>

\* snippet_start = max(0, start - context)
snippet_start(start, ctx) == Max(0, start - ctx)

\* Variant: the window runs to the end of the content.
snippet_end_whole(text, end, ctx) == Len(text)

\* snippet_end = min(len(content), end + context)
snippet_end(text, end, ctx) == Min(Len(text), end + ctx)

\* Variant: the marker is put on the side where the window was clamped.
prefix_when_clamped(start, ctx) ==
    IF start - ctx < 0 THEN Ellipsis ELSE <<>>

\* prefix = "..." if snippet_start > 0 else ""
prefix(start, ctx) ==
    IF snippet_start(start, ctx) > 0 THEN Ellipsis ELSE <<>>

\* suffix = "..." if snippet_end < len(content) else ""
suffix(text, end, ctx) ==
    IF snippet_end(text, end, ctx) < Len(text) THEN Ellipsis ELSE <<>>

\* The value create_advanced_snippet returns.
Snippet(text, m, ctx) ==
    prefix(m.start, ctx)
    \o escape(Slice(text, snippet_start(m.start, ctx), m.start))
    \o MarkOpen
    \o escape(Slice(text, m.start, m.end))
    \o MarkClose
    \o escape(Slice(text, m.end, snippet_end(text, m.end, ctx)))
    \o suffix(text, m.end, ctx)

\* The matches a regular expression can report in a text: 0 <= start <= end
\* <= len(text).
Matches(text) ==
    { m \in [start : 0..Len(text), end : 0..Len(text)] : m.start <= m.end }

InitSnippet ==
    /\ content \in Contents
    /\ match_obj \in Matches(content)
    /\ context \in 0..MaxContext
    /\ snippet = <<>>
    /\ spc = "call"

create_advanced_snippet ==
    /\ spc = "call"
    /\ snippet' = Snippet(content, match_obj, context)
    /\ spc' = "done"
    /\ UNCHANGED <<content, match_obj, context>>
    /\ UNCHANGED outsideSnippet

NextSnippet == create_advanced_snippet

InitSnippetSpec ==
    /\ InitFetch /\ InitWalk("off") /\ InitBatch("off") /\ InitMain("off")
    /\ InitRepo("off") /\ InitSnippet /\ InitPagesOff /\ InitFilesOff
    /\ InitScanOff
    /\ responses = NoResponses

SpecSnippet == InitSnippetSpec /\ [][NextSnippet]_vars

\* ------------------------------------------------------- fetch_all_commits
\* per_page (100 in the code) and the largest number of pages a source lists.
per_page == 2
MaxPages == 3
\* The walk is followed up to this page index.
PageCap == MaxPages + 2

\* The commits of a page: the i-th commit of page p is <<p, i>>.
PageOf(p, size) == [i \in 1..size |-> <<p, i>>]

\* What _fetch_json returns for a page: the list of its commits, or {} when
\* the request failed without being retried (404, 409, 500).
Answers(p) ==
    { [failed |-> FALSE, items |-> PageOf(p, size)] : size \in 0..per_page }
    \cup { [failed |-> TRUE, items |-> <<>>] }

\* A source: what it answers for its first pages, and whether it goes on
\* with full pages for ever after them or has nothing more.
Sources ==
    { [pages |-> pg, endless |-> e] :
        pg \in UNION { { f \in [1..n -> UNION { Answers(p) : p \in 1..n }] :
                           \A p \in 1..n : f[p] \in Answers(p) } :
                       n \in 0..MaxPages },
        e \in BOOLEAN }

Answer(src, p) ==
    IF p <= Len(src.pages) THEN src.pages[p]
    ELSE [failed |-> FALSE,
          items |-> IF src.endless THEN PageOf(p, per_page) ELSE <<>>]

\* Variant: only the empty list ends the walk, {} does not.
FalsyListOnly(data) == ~data.failed /\ data.items = <<>>

\* `if not data`: {} and [] are falsy.
Falsy(data) == data.failed \/ data.items = <<>>

\* Variant: the index moves by two.
page_skips(p) == p + 2

\* page += 1
next_page(p) == p + 1

InitPages ==
    /\ source \in Sources
    /\ page = 1
    /\ all_commits = <<>>
    /\ requested = <<>>
    /\ gpc = "loop"

\* One turn of `while True`: the page is asked for; an empty answer ends the
\* walk, any other is appended and the index moves on.
RequestPage ==
    /\ gpc = "loop"
    /\ page <= PageCap
    /\ requested' = Append(requested, [page |-> page, per_page |-> per_page])
    /\ LET data == Answer(source, page)
       IN  IF Falsy(data)
           THEN /\ gpc' = "done"
                /\ UNCHANGED <<page, all_commits>>
           ELSE /\ all_commits' = all_commits \o data.items
                /\ page' = next_page(page)
                /\ UNCHANGED gpc
    /\ UNCHANGED source
    /\ UNCHANGED outsidePages

NextPages == RequestPage

InitPagesSpec ==
    /\ InitFetch /\ InitWalk("off") /\ InitBatch("off") /\ InitMain("off")
    /\ InitRepo("off") /\ InitSnippetOff /\ InitPages /\ InitFilesOff
    /\ InitScanOff
    /\ responses = NoResponses

\* The event loop resumes fetch_all_commits whenever its request has an
\* answer.
SpecPages == InitPagesSpec /\ [][NextPages]_vars /\ WF_vars(NextPages)

\* ------------------------------------- the files of a revision (HEAD, commit)
\* Largest number of entries in a tree listing or a changed-file list.
MaxEntries == 2
\* The k-th entry of a listing names the k-th of these paths.
EntryNames == <<"a.txt", "b.txt", "c.txt", "d.txt">>
Statuses == {"added", "modified", "removed"}
Types == {"blob", "tree"}

\* commit_detail["files"]
ChangedFiles ==
    { [k \in 1..Len(st) |-> [filename |-> EntryNames[k], status |-> st[k]]] :
        st \in UNION { [1..n -> Statuses] : n \in 0..MaxEntries } }

\* data["tree"]
TreeEntries ==
    { [k \in 1..Len(ty) |-> [path |-> EntryNames[k], type |-> ty[k]]] :
        ty \in UNION { [1..n -> Types] : n \in 0..MaxEntries } }

\* What fetch_commit_details returns: {} or a commit with its changed files
\* and, or not, the sha of its tree.
Details ==
    {EmptyBody}
    \cup { [truthy |-> TRUE, tree_key |-> FALSE, tree |-> <<>>, files |-> f,
            tree_sha |-> b] : f \in ChangedFiles, b \in BOOLEAN }

\* What the tree url returns: {}, a body without "tree", or a tree listing.
TreeBodies ==
    {EmptyBody,
     [truthy |-> TRUE, tree_key |-> FALSE, tree |-> <<>>, files |-> <<>>,
      tree_sha |-> FALSE]}
    \cup { [truthy |-> TRUE, tree_key |-> TRUE, tree |-> t, files |-> <<>>,
            tree_sha |-> FALSE] : t \in TreeEntries }

\* Variant: every entry of the tree is taken, directories too.
AllEntries(tree) == [k \in 1..Len(tree) |-> tree[k].path]

\* [item["path"] for item in data.get("tree", []) if item["type"] == "blob"]
Blobs(tree) ==
    LET IsBlob(item) == item.type = "blob"
        kept == SelectSeq(tree, IsBlob)
    IN  [k \in 1..Len(kept) |-> kept[k].path]

\* Variant: the status of a changed file is not looked at.
AllChanged(changed_files) ==
    [k \in 1..Len(changed_files) |-> changed_files[k].filename]

\* [f["filename"] for f in changed_files if f.get("status") != "removed"]
NotRemoved(changed_files) ==
    LET Stays(f) == f.status # "removed"
        kept == SelectSeq(changed_files, Stays)
    IN  [k \in 1..Len(kept) |-> kept[k].filename]

\* fetch_file_list: the blob paths when the body has a tree, [] otherwise.
fetch_file_list(body) ==
    IF body.truthy /\ body.tree_key THEN Blobs(body.tree) ELSE <<>>

\* scan_commit up to its gather: the file list the scans are started on, or
\* no scan at all (return None).
NoScan == [scan |-> FALSE, file_list |-> <<>>]

scan_commit_files(detail, body) ==
    IF ~detail.truthy THEN NoScan
    ELSE IF detail.files # <<>>
         THEN IF NotRemoved(detail.files) = <<>> THEN NoScan
              ELSE [scan |-> TRUE, file_list |-> NotRemoved(detail.files)]
    ELSE IF ~detail.tree_sha THEN NoScan
    ELSE IF body.truthy THEN [scan |-> TRUE, file_list |-> Blobs(body.tree)]
    ELSE NoScan

\* No commit entry was appended.
NoEntry == [results |-> "none", commit_date |-> "none"]

\* process_repo: the "results" and "commit_date" of the entry appended for a
\* commit, from what scan_commit returned: those of its dict, or None and
\* "unknown" when it returned None.
CommitEntry(scan_result) ==
    IF scan_result.scan
    THEN [results |-> "list", commit_date |-> "dated"]
    ELSE [results |-> "None", commit_date |-> "unknown"]

\* The revision, the detail of the commit and what the tree url holds.
InitFiles ==
    /\ ref \in {"HEAD", "commit"}
    /\ commit_detail \in (IF ref = "HEAD" THEN {EmptyBody} ELSE Details)
    /\ tree_body \in TreeBodies
    /\ selected = NoScan
    /\ lpc = "call"
    /\ recorded = NoEntry

\* scan_repository: files = await self.fetch_file_list(...), one scan each.
ResolveHead ==
    /\ lpc = "call"
    /\ ref = "HEAD"
    /\ selected' = [scan |-> TRUE, file_list |-> fetch_file_list(tree_body)]
    /\ lpc' = "done"
    /\ UNCHANGED <<ref, commit_detail, tree_body, recorded>>
    /\ UNCHANGED outsideFiles

\* scan_commit: the file list of the commit, or None; process_repo appends
\* the entry of the commit.
ResolveCommit ==
    /\ lpc = "call"
    /\ ref = "commit"
    /\ selected' = scan_commit_files(commit_detail, tree_body)
    /\ recorded' = CommitEntry(selected')
    /\ lpc' = "done"
    /\ UNCHANGED <<ref, commit_detail, tree_body>>
    /\ UNCHANGED outsideFiles

NextFiles == ResolveHead \/ ResolveCommit

InitFilesSpec ==
    /\ InitFetch /\ InitWalk("off") /\ InitBatch("off") /\ InitMain("off")
    /\ InitRepo("off") /\ InitSnippetOff /\ InitPagesOff /\ InitFiles
    /\ InitScanOff
    /\ responses = NoResponses

SpecFiles == InitFilesSpec /\ [][NextFiles]_vars

\* ----------------------------------------- the three scanning paths
\* Largest length of a scanned content; its characters are a letter the
\* patterns look for, a newline and another letter.
MaxScanLen == 3
ScanChars == {"k", "\n", "a"}
ScanContents == UNION { [1..n -> ScanChars] : n \in 0..MaxScanLen }

\* The patterns a patterns file can hold: "Key" has the regex `k`, "Prefix"
\* the regex `^k?`, which matches the empty string where no k starts the text.
PatternSets == { <<"Key">>, <<"Key", "Prefix">>, <<"Prefix", "Key">> }

\* The matches of `k` from position i on, in position order.
RECURSIVE KeyMatches(_, _)
KeyMatches(txt, i) ==
    IF i > Len(txt) THEN <<>>
    ELSE IF txt[i] = "k"
         THEN <<[start |-> i - 1, end |-> i]>> \o KeyMatches(txt, i + 1)
    ELSE KeyMatches(txt, i + 1)

\* pattern["regex"].finditer(content)
finditer(pattern, txt) ==
    IF pattern = "Key" THEN KeyMatches(txt, 1)
    ELSE <<[start |-> 0,
            end |-> IF Len(txt) >= 1 /\ txt[1] = "k" THEN 1 ELSE 0]>>

\* content[:n].count("\n")
RECURSIVE CountNewlines(_, _)
CountNewlines(txt, n) ==
    IF n = 0 THEN 0
    ELSE CountNewlines(txt, n - 1) + (IF txt[n] = "\n" THEN 1 ELSE 0)

\* Variant: lines are counted from 0.
line_number_from_zero(txt, m) == CountNewlines(txt, m.start)

\* content[:match_obj.start()].count("\n") + 1
line_number(txt, m) == CountNewlines(txt, m.start) + 1

\* The record appended for one match (context=40 in the code, scaled).
MatchRecord(pattern, txt, m) ==
    [pattern_name |-> pattern,
     match |-> Slice(txt, m.start, m.end),
     line_number |-> line_number(txt, m),
     snippet |-> Snippet(txt, m, MaxContext)]

\* for pattern in patterns: for match_obj in finditer(content): append
RECURSIVE ScanContent(_, _)
ScanContent(txt, pats) ==
    IF pats = <<>> THEN <<>>
    ELSE LET found == finditer(Head(pats), txt)
         IN  [k \in 1..Len(found) |-> MatchRecord(Head(pats), txt, found[k])]
             \o ScanContent(txt, Tail(pats))

\* What a path hands on: a file result with its matches, or nothing.
FileResult(matches) ==
    [done |-> TRUE, produced |-> matches # <<>>, matches |-> matches]

\* scan_file, scan_file_commit: `if content:` and, inside it, the loops and
\* `return {...} if matches else None`; `return None` otherwise.
ScanGuarded(txt, pats) ==
    IF txt # <<>> THEN FileResult(ScanContent(txt, pats)) ELSE FileResult(<<>>)

InitScan ==
    /\ file_text \in ScanContents
    /\ patterns \in PatternSets
    /\ head_scan = NotScanned
    /\ commit_scan = NotScanned
    /\ local_scan = NotScanned

\* scan_file on the content fetch_file_content returned for HEAD.
scan_file_content ==
    /\ ~head_scan.done
    /\ head_scan' = ScanGuarded(file_text, patterns)
    /\ UNCHANGED <<file_text, patterns, commit_scan, local_scan>>
    /\ UNCHANGED outsideScan

\* scan_file_commit on the content fetched at the commit.
scan_file_commit ==
    /\ ~commit_scan.done
    /\ commit_scan' = ScanGuarded(file_text, patterns)
    /\ UNCHANGED <<file_text, patterns, head_scan, local_scan>>
    /\ UNCHANGED outsideScan

\* process_local_folder on the content read from the file: no test of the
\* content before the loops, `if file_matches:` after them.
process_local_folder ==
    /\ ~local_scan.done
    /\ local_scan' = FileResult(ScanContent(file_text, patterns))
    /\ UNCHANGED <<file_text, patterns, head_scan, commit_scan>>
    /\ UNCHANGED outsideScan

NextScan == scan_file_content \/ scan_file_commit \/ process_local_folder

InitScanSpec ==
    /\ InitFetch /\ InitWalk("off") /\ InitBatch("off") /\ InitMain("off")
    /\ InitRepo("off") /\ InitSnippetOff /\ InitPagesOff /\ InitFilesOff
    /\ InitScan
    /\ responses = NoResponses

SpecScan == InitScanSpec /\ [][NextScan]_vars

\* ------------------------- process_repo against a repository's responses
\* What the scans of the files of one revision end with, in file-list order.
ScanSeqs == UNION { [1..n -> ScanOutcomes] : n \in 0..Len(PathSeq) }

\* What a repository answers for one commit: the kind of its detail, what
\* its tree url returns when it is asked for, and what the scans of its files
\* end with.
CommitResponses ==
    { [kind |-> k, tree_out |-> "none", scans |-> <<>>] :
        k \in {"empty", "removed", "no_tree_sha"} }
    \cup { [kind |-> "files", tree_out |-> "none", scans |-> sc] :
             sc \in ScanSeqs \ {<<>>} }
    \cup { [kind |-> "tree", tree_out |-> "empty", scans |-> <<>>] }
    \cup { [kind |-> "tree", tree_out |-> "body", scans |-> sc] :
             sc \in { q \in ScanSeqs : Len(q) <= 1 } }

\* What a repository answers for HEAD: its tree listing, and what the scans
\* of the listed files end with.
HeadResponses ==
    { [out |-> "empty", scans |-> <<>>] }
    \cup { [out |-> "body", scans |-> sc] : sc \in ScanSeqs }

\* The answers of the revision whose files are being scanned.
CurrentScans ==
    IF ppc = "head_gather" THEN responses.head.scans
    ELSE responses.commits[Len(repo_commits) + 1].scans

\* What a repository answers to a task: for HEAD; the commit list; for each
\* commit of the list, in list order, its answer. flag is
\* scanner.commit_scan_flag: without it no commit list is asked for.
InitDet ==
    \E h \in HeadResponses, fl \in BOOLEAN, l \in CommitLists \cup {<<>>} :
        \E cs \in [1..Len(l) -> CommitResponses] :
            /\ fl = FALSE => l = <<>>
            /\ responses = [head |-> h, flag |-> fl, list |-> l, commits |-> cs]

\* fetch_file_list gets the repository's tree listing.
HeadListed ==
    FileListReturns(responses.head.out, Len(responses.head.scans))

\* A file's request is answered with a rate-limit 403 or ends in a transport
\* error: its scan waits out the cool-down.
ChildCoolsDown(i) ==
    /\ ppc \in Gathers
    /\ ~cancel_called
    /\ child[i] = "pending"
    /\ child' = [child EXCEPT ![i] = "cooling"]
    /\ UNCHANGED <<ppc, file_list, finished, head_results, repo_commits, todo,
                   cancel_called, cancelled_at>>
    /\ UNCHANGED walkVars
    /\ UNCHANGED outsideRepo

\* The cool-down is over: the request is issued again.
ChildRetries(i) ==
    /\ ppc \in Gathers
    /\ ~cancel_called
    /\ child[i] = "cooling"
    /\ child' = [child EXCEPT ![i] = "pending"]
    /\ UNCHANGED <<ppc, file_list, finished, head_results, repo_commits, todo,
                   cancel_called, cancelled_at>>
    /\ UNCHANGED walkVars
    /\ UNCHANGED outsideRepo

\* The scan of file i ends with what the repository answers for the file.
ChildAnswered(i) ==
    /\ i <= Len(file_list)
    /\ ChildFinishes(i, CurrentScans[i])

\* The newest commit is asked for; commit_scan_flag decides what follows.
NewestCommitListed ==
    \E out \in JsonOutcomes : CommitListReturns(out, responses.flag)

\* The commit list of the repository returns.
CommitListAnswered ==
    CommitsListed(IF responses.list = <<>> THEN "empty" ELSE "body",
                  responses.list)

\* The detail of the commit the loop is at returns.
CommitDetailAnswered ==
    LET c == responses.commits[Len(repo_commits) + 1]
    IN  CommitDetails(c.kind, IF c.kind = "files" THEN Len(c.scans) ELSE 0)

\* The tree listing of the commit the loop is at returns.
CommitTreeAnswered ==
    LET c == responses.commits[Len(repo_commits) + 1]
    IN  TreeReturns(c.tree_out, Len(c.scans))

NextDet ==
    \/ \E out \in JsonOutcomes : RateLimitChecked(out)
    \/ HeadListed
    \/ \E i \in 1..MaxScanFiles : ChildCoolsDown(i)
    \/ \E i \in 1..MaxScanFiles : ChildRetries(i)
    \/ \E i \in 1..MaxScanFiles : ChildAnswered(i)
    \/ HeadScanned
    \/ NewestCommitListed
    \/ CommitListAnswered
    \/ CommitDetailAnswered
    \/ CommitTreeAnswered
    \/ CommitScanned
    \/ ReportRepo

InitDetSpec ==
    /\ InitFetch /\ InitWalk("off") /\ InitBatch("off") /\ InitMain("off")
    /\ InitRepo("check_rate_limit")
    /\ InitSnippetOff /\ InitPagesOff /\ InitFilesOff /\ InitScanOff
    /\ InitDet

SpecDet == InitDetSpec /\ [][NextDet]_vars

\* ------------------------------------------------------------------ claims
\* The fetch calls whose request is open: awaiting the response, or holding
\* the response of a rate-limited request through its cool-down.
RequestsInFlight == {f \in Fetchers : fpc[f] \in {"inflight", "rl_sleep"}}

\* A 403 whose rate-limit budget is exhausted: the header reads 0 or is
\* missing.
ExhaustedSignal(r) == r.status = 403 /\ r.remaining \in {"absent", "0"}

EmptyResult(f) == IF Kind(f) = "json" THEN "empty" ELSE "absent"

\* C1: in every reachable state the number of requests in flight, JSON and
\* text fetches of all repository tasks together, is at most the concurrency
\* ceiling.
C1_InFlightAtMostCeiling ==
    Cardinality(RequestsInFlight) <= Concurrency

\* The ceiling is reached while a fetch of another task waits for a slot.
C1_Witness ==
    /\ Cardinality(RequestsInFlight) = Concurrency
    /\ \E f \in RequestsInFlight, g \in Fetchers :
          g[1] # f[1] /\ fpc[g] = "acquire"

\* C2: a fetch waiting out the rate-limit cool-down holds no concurrency
\* slot (the slot is released before the cool-down begins).
C2_CooldownHoldsNoSlot ==
    \A f \in Fetchers : fpc[f] = "rl_sleep" => f \notin holds

\* C3: a fetch that receives a 403 with an exhausted rate-limit signal returns
\* nothing for that response; it cools down, then asks for a slot again to
\* re-issue the request, and leaves the cool-down otherwise only by
\* cancellation of its task.
C3_RateLimitRetried ==
    [][\A f \in Fetchers :
          /\ (fpc[f] = "inflight" /\ ExhaustedSignal(resp'[f]))
                => (fpc'[f] = "rl_sleep" /\ result'[f] = "none")
          /\ (fpc'[f] = "returned" => ~ExhaustedSignal(resp'[f]))
          /\ (fpc[f] = "rl_sleep")
                => /\ result'[f] = "none"
                   /\ \/ fpc'[f] = "rl_sleep"
                      \/ fpc'[f] = "acquire"
                      \/ fpc'[f] = "cancelled" /\ cancelReq[f[1]]]_vars

\* A fetch is cooling down after a 403 whose header reads 0, with no result.
C3_Witness ==
    \E f \in Fetchers :
        /\ fpc[f] = "rl_sleep"
        /\ resp[f].status = 403 /\ resp[f].remaining = "0"
        /\ result[f] = "none"

\* C4: a fetch whose request ends in a transport error cools down and asks
\* for a slot again; the error is never returned as an empty result nor
\* raised, and the retry loop is left only by a response or by cancellation.
C4_TransportErrorRetried ==
    [][\A f \in Fetchers :
          /\ (fpc'[f] = "returned" /\ fpc[f] # "returned")
                => (fpc[f] = "inflight" /\ resp'[f] \in Responses)
          /\ (fpc'[f] = "err_sleep" /\ fpc[f] # "err_sleep")
                => (fpc[f] = "inflight" /\ f \notin holds')
          /\ (fpc[f] = "err_sleep")
                => /\ result'[f] = "none"
                   /\ \/ fpc'[f] = "err_sleep"
                      \/ fpc'[f] = "acquire"
                      \/ fpc'[f] = "cancelled" /\ cancelReq[f[1]]]_vars

\* A fetch is in the cool-down of a transport error, its task not cancelled.
C4_Witness ==
    \E f \in Fetchers :
        fpc[f] = "err_sleep" /\ ~cancelReq[f[1]] /\ result[f] = "none"

\* C5: a fetch that receives 409 has returned the empty result (empty object
\* for JSON, absent for text) when that response has been handled: it is in
\* no cool-down, waits for no slot, holds none.
C5_ConflictReturnsEmpty ==
    \A f \in Fetchers :
        resp[f].status = 409
            => /\ fpc[f] = "returned"
               /\ result[f] = EmptyResult(f)
               /\ f \notin holds

\* A fetch has just returned on a 409.
C5_Witness ==
    \E f \in Fetchers : resp[f].status = 409 /\ fpc[f] = "returned"

\* C6: a fetch that receives a non-200 status other than 409 and other than a
\* 403 with an exhausted rate-limit signal has returned the empty result when
\* that response has been handled: no cool-down, no retry.
C6_OtherFailureReturnsEmpty ==
    \A f \in Fetchers :
        (resp[f] \in Responses /\ resp[f].status \notin {200, 409}
            /\ ~ExhaustedSignal(resp[f]))
            => /\ fpc[f] = "returned"
               /\ result[f] = EmptyResult(f)
               /\ f \notin holds

\* A fetch returned after a 403 whose remaining budget is positive.
C6_Witness ==
    \E f \in Fetchers :
        /\ resp[f].status = 403 /\ resp[f].remaining = "1"
        /\ fpc[f] = "returned"

\* C7: once cancel() was called on a task, each of its fetch calls in
\* progress can only unwind: it issues no request, returns no result, and
\* holds no slot once unwound; the task is Cancelled only when none is left
\* in progress.
C7_CancelPropagates ==
    [][\A f \in Fetchers :
          cancelReq[f[1]]
            => /\ result'[f] = result[f]
               /\ fpc'[f] = "inflight" => fpc[f] = "inflight"
               /\ fpc'[f] # fpc[f]
                    => (fpc[f] \in InProgress /\ fpc'[f] = "cancelled"
                        /\ f \notin holds'
                        /\ semValue' = semValue + (IF f \in holds THEN 1 ELSE 0))
               /\ taskPc'[f[1]] = "Cancelled"
                    => (fpc'[f] \notin InProgress /\ f \notin holds')]_vars

\* A task was cancelled while one of its fetches held a slot in a cool-down;
\* the fetch has unwound and the slot is free again.
C7_Witness ==
    \E f \in Fetchers :
        /\ taskPc[f[1]] = "Cancelled"
        /\ fpc[f] = "cancelled"
        /\ semValue = Concurrency
        /\ \E t \in Tasks : Running(t)
\* The signatures of commit i of a commit list, and of the entries of a
\* commit list that carry commit id c.
CommitSignatures(commits, i) == RevisionSignatures(commits[i].results)

SignaturesUnder(commits, c) ==
    UNION {RevisionSignatures(commits[i].results) :
              i \in {k \in 1..Len(commits) : commits[k].commit_id = c}}

\* C8: after the dedup pass no signature appears in more than one revision
\* result of the repository: none of HEAD's in a history commit, none in two
\* history commits.
C8_SignatureInOneRevision ==
    rpc = "reported" =>
        LET history == repo_dict.commit_results
        IN  /\ \A i \in 1..Len(history) :
                  CommitSignatures(history, i)
                      \cap RevisionSignatures(repo_dict.results) = {}
            /\ \A i, j \in 1..Len(history) :
                  i < j => CommitSignatures(history, i)
                              \cap CommitSignatures(history, j) = {}

\* The pass ran on a repository where one signature was in HEAD and in two
\* commits.
C8_Witness ==
    /\ rpc = "reported"
    /\ \E i, j \in 1..Len(scanned.commit_results) :
          /\ i < j
          /\ RevisionSignatures(scanned.results)
                \cap CommitSignatures(scanned.commit_results, i)
                \cap CommitSignatures(scanned.commit_results, j) # {}

\* Commits i < j of the scanned list (i the newer) that both hold signature
\* sig, which is in neither HEAD nor a commit before i.
FirstSeenTwice(i, j, sig) ==
    /\ i < j
    /\ sig \in CommitSignatures(scanned.commit_results, i)
    /\ sig \in CommitSignatures(scanned.commit_results, j)
    /\ sig \notin RevisionSignatures(scanned.results)
    /\ \A k \in 1..(i - 1) : sig \notin CommitSignatures(scanned.commit_results, k)

\* C9: when commits C1 (newer) and C2 (older) both hold a signature that is
\* in neither HEAD nor a commit before C1, the deduplicated history reports
\* it under C1 and not under C2.
C9_NewerCommitKeepsSignature ==
    rpc = "reported" =>
        \A i, j \in 1..Len(scanned.commit_results) :
            \A sig \in CommitSignatures(scanned.commit_results, i) :
                FirstSeenTwice(i, j, sig)
                    => /\ sig \in SignaturesUnder(repo_dict.commit_results, i)
                       /\ sig \notin SignaturesUnder(repo_dict.commit_results, j)

\* The pass ran on a history whose second and third commits share a
\* signature the first commit and HEAD do not have.
C9_Witness ==
    /\ rpc = "reported"
    /\ \E i, j \in 2..Len(scanned.commit_results) :
          \E sig \in CommitSignatures(scanned.commit_results, i) :
              FirstSeenTwice(i, j, sig)

\* C10: every commit walked is in the history after the dedup pass, in the
\* same number and order (a commit left without records keeps an empty file
\* list).
C10_EveryCommitKept ==
    rpc = "reported" =>
        /\ Len(repo_dict.commit_results) = Len(scanned.commit_results)
        /\ \A i \in 1..Len(scanned.commit_results) :
              repo_dict.commit_results[i].commit_id
                  = scanned.commit_results[i].commit_id

\* s is t with some elements left out, the others unchanged and in order.
RECURSIVE IsSubSeq(_, _)
IsSubSeq(s, t) ==
    IF s = <<>> THEN TRUE
    ELSE IF t = <<>> THEN FALSE
    ELSE IF Head(s) = Head(t) THEN IsSubSeq(Tail(s), Tail(t))
    ELSE IsSubSeq(s, Tail(t))

FilePaths(files) == [i \in 1..Len(files) |-> files[i].file_path]

\* Every file of `after` is a file of `before` with some match records left
\* out, and the files are in the order of `before`.
FilesOnlyLose(after, before) ==
    /\ IsSubSeq(FilePaths(after), FilePaths(before))
    /\ \A i \in 1..Len(after) :
          \E j \in 1..Len(before) :
              /\ before[j].file_path = after[i].file_path
              /\ IsSubSeq(after[i].matches, before[j].matches)

\* C11: the dedup pass leaves HEAD exactly as scanned (files, order, every
\* match record, repeated signatures included); in the history it only
\* removes match records: every commit it reports is a scanned commit with
\* the same id and date, whose files and records are scanned ones, unchanged
\* and in order.
C11_HeadUntouchedHistoryOnlyLoses ==
    rpc = "reported" =>
        /\ repo_dict.results = scanned.results
        /\ \A i \in 1..Len(repo_dict.commit_results) :
              LET commit == repo_dict.commit_results[i]
              IN  /\ commit.commit_id \in 1..Len(scanned.commit_results)
                  /\ commit.commit_date
                        = scanned.commit_results[commit.commit_id].commit_date
                  /\ FilesOnlyLose(commit.results,
                        scanned.commit_results[commit.commit_id].results)

\* The pass ran on a repository whose HEAD holds one signature twice in a
\* file and whose history held that signature again and lost it.
C11_Witness ==
    /\ rpc = "reported"
    /\ \E i \in 1..Len(scanned.results) :
          Len(scanned.results[i].matches)
              > Cardinality(FileSignatures(scanned.results[i]))
    /\ \E i \in 1..Len(scanned.commit_results) :
          CommitSignatures(scanned.commit_results, i)
              \cap RevisionSignatures(scanned.results) # {}
    /\ CountCommitMatches(repo_dict.commit_results)
          < CountCommitMatches(scanned.commit_results)

\* C12: the dedup pass applied to its own output changes nothing: the same
\* match records survive, in the same commits and files.
C12_DedupIdempotent ==
    rpc = "reported" => Dedup(repo_dict) = repo_dict

\* The pass removed records from a history of which two commits remain.
C12_Witness ==
    /\ rpc = "reported"
    /\ repo_dict # scanned
    /\ Len(repo_dict.commit_results) >= 2

\* C13: in a batch of several repositories, what survives the dedup pass in
\* one repository is what survives when that repository is reported alone,
\* whatever the other repositories hold: a signature of repository A never
\* suppresses a match of repository B.
C13_BaselinePerRepository ==
    bpc = "reported" =>
        /\ Len(all_results) = Len(all_scanned)
        /\ \A i \in 1..Len(all_scanned) :
              all_results[i] = DedupAll(<<all_scanned[i]>>, {})[1]

\* The pass ran on a batch whose second repository holds, in its history
\* and not in its HEAD, a signature the first repository holds too; the
\* signature is still reported in the second repository.
C13_Witness ==
    /\ bpc = "reported"
    /\ Len(all_scanned) = 2
    /\ \E sig \in RevisionSignatures(all_scanned[1].results)
                    \cup SignaturesUnder(all_scanned[1].commit_results, 1) :
          /\ sig \notin RevisionSignatures(all_scanned[2].results)
          /\ sig \in SignaturesUnder(all_scanned[2].commit_results, 1)
          /\ sig \in SignaturesUnder(all_results[2].commit_results, 1)

\* C14: a skip signal observed by main while a task is pending leads main to
\* cancel() exactly one task, one that had not finished; the listener is
\* started again once that task is awaited; the number of tasks main's loop
\* has cancelled never exceeds the number of signals, and no step of main
\* cancels two tasks.
C14_OneSkipOneTask ==
    /\ [](Cardinality(skipped) <= signals)
    /\ [][LET chosen == skipped' \ skipped
              pending == {t \in remaining_tasks : tstate[t] \notin Terminal}
          IN  /\ Cardinality(chosen) <= 1
              /\ \A t \in chosen :
                    /\ tstate[t] = "Running"
                    /\ tstate'[t] = "Cancelling"
                    /\ t \in pending
                    /\ skip_task = "done"
                    /\ task_to_cancel' = t
              /\ (mpc = "wait" /\ skip_task = "done" /\ pending # {}
                    /\ (mpc' # mpc \/ remaining_tasks' # remaining_tasks)
                    /\ mpc' # "aborted")
                    => Cardinality(chosen) = 1
              /\ (mpc = "await_cancel" /\ mpc' \in {"wait", "ended"})
                    => (skip_task' = "waiting" /\ task_to_cancel' = "none")
         ]_vars

\* Two signals came and two tasks were cancelled while a third completed.
C14_Witness ==
    /\ signals = 2
    /\ Cardinality(skipped) = 2
    /\ Cardinality({t \in repo_tasks : tstate[t] = "Cancelled"}) = 2
    /\ \E t \in repo_tasks : tstate[t] = "Completed"
    /\ mpc = "ended"

\* All there is of task u: its position, its cancel flag, and the position,
\* response, return value and slot of each of its fetch calls.
TaskState(u) ==
    <<taskPc[u], nfiles[u], cancelReq[u],
      [i \in 0..NumFiles |->
          <<fpc[<<u, i>>], resp[<<u, i>>], result[<<u, i>>],
            <<u, i>> \in holds>>]>>

\* A step of the cancellation of task t: cancel() on it, the unwinding of
\* one of its fetch calls, or its end as Cancelled.
CancelStep(t) ==
    /\ cancelReq'[t]
    /\ \/ ~cancelReq[t]
       \/ taskPc'[t] # taskPc[t]
       \/ \E i \in 0..NumFiles : fpc'[<<t, i>>] # fpc[<<t, i>>]

\* C15: the cancellation of one task touches no other task: each step of it
\* leaves every other task's position, cancel flag, fetch calls, responses
\* and return values as they were and takes no slot, so the others are not
\* cancelled and return what their own responses give; a cancelled task is
\* never Completed and a Completed one was never cancelled.
C15_SkipLeavesOtherTasks ==
    /\ [](\A u \in Tasks : taskPc[u] = "Completed" => ~cancelReq[u])
    /\ [][\A t \in Tasks :
             CancelStep(t)
                => /\ semValue' >= semValue
                   /\ \A u \in Tasks \ {t} : TaskState(u)' = TaskState(u)]_vars

\* One task was cancelled and unwound; another has completed with the
\* content of its file.
C15_Witness ==
    \E t, u \in Tasks :
        /\ taskPc[t] = "Cancelled"
        /\ \E i \in 0..NumFiles : fpc[<<t, i>>] = "cancelled"
        /\ taskPc[u] = "Completed"
        /\ nfiles[u] >= 1
        /\ result[<<u, 1>>] = "body"

\* C16: when main's loop has ended, its result list holds exactly one entry
\* for every task that completed, the repo_dict that task returned (with
\* empty results when it found nothing), and none for a cancelled task.
C16_OneEntryPerCompletedTask ==
    mpc = "ended" =>
        /\ \A t \in repo_tasks :
              LET entries == {i \in 1..Len(main_results) :
                                 main_results[i].repo_full_name = t}
              IN  /\ tstate[t] \in {"Completed", "Cancelled"}
                  /\ tstate[t] = "Completed"
                        => /\ Cardinality(entries) = 1
                           /\ \A i \in entries : main_results[i] = ret[t]
                  /\ tstate[t] = "Cancelled" => entries = {}
        /\ Len(main_results)
              = Cardinality({t \in repo_tasks : tstate[t] = "Completed"})

\* The loop ended with one task cancelled, one completed with findings and
\* one completed without.
C16_Witness ==
    /\ mpc = "ended"
    /\ \E t, u, v \in repo_tasks :
          /\ tstate[t] = "Cancelled"
          /\ tstate[u] = "Completed" /\ ret[u].results = <<>>
          /\ tstate[v] = "Completed" /\ ret[v].results # <<>>

\* C17: a task that ends Failed does not stop the batch: main never leaves
\* its loop on the task's error, so the other tasks are drained and the
\* results reach the report step.
C17_FailedTaskDoesNotAbort ==
    mpc # "aborted"

\* C18: once cancel() has been called on a repository task, at whatever
\* point it was suspended (rate-limit check, tree listing, file fan-out,
\* commit listing, commit scan), the task can only end Cancelled: it is
\* never Completed and never Failed, and it stores no further result.
C18_CancelEndsCancelled ==
    /\ [](cancel_called => ppc \notin {"Completed", "Failed"})
    /\ [][cancel_called
            => /\ ppc' \in {ppc, "Cancelled"}
               /\ head_results' = head_results
               /\ repo_commits' = repo_commits]_vars

\* A task cancelled during the file fan-out of a commit scan, one scan done
\* and one unwound, has ended Cancelled.
C18_Witness ==
    /\ ppc = "Cancelled"
    /\ cancelled_at = "commit_gather"
    /\ \E i, j \in 1..Len(file_list) :
          child[i] = "cancelled" /\ child[j] \in ScanOutcomes

\* A step in which the gather over file_list is complete and the revision's
\* results are stored; Produced is what is stored.
GatherEnds == ppc \in Gathers /\ ppc' \notin Gathers \cup {"Cancelled"}

Produced ==
    IF ppc = "head_gather" THEN head_results'
    ELSE repo_commits'[Len(repo_commits')].results

HasResult(file_path) == child[file_path] = "dict"

\* C19: a file whose scan gives nothing (absent content, no match) or raises
\* does not stop the revision scan: the scan finishes without failing the
\* task, its results hold every file whose scan returned matches, and only
\* the other files are missing.
C19_FailedFileOnlyOmitted ==
    [][GatherEnds
         => /\ ppc' # "Failed"
            /\ \A k \in 1..Len(file_list) :
                  HasResult(file_list[k])
                     <=> \E j \in 1..Len(Produced) : Produced[j] = file_list[k]
      ]_vars

\* The HEAD scan finished with one file's scan raised and another file's
\* result kept.
C19_Witness ==
    /\ ppc = "fetch_commit_list"
    /\ \E i, j \in 1..Len(file_list) :
          /\ child[i] = "raised"
          /\ child[j] = "dict"
          /\ head_results = <<file_list[j]>>

\* C20: the results of a revision are in the order of the resolved file
\* list, whatever the order in which the scans ended: they are the file list
\* without the files that have no result.
C20_ResultsInFileListOrder ==
    [][GatherEnds => Produced = SelectSeq(file_list, HasResult)]_vars

\* A commit scan whose second file ended first reports both files in list
\* order.
C20_Witness ==
    /\ repo_commits # <<>>
    /\ Len(finished) >= 2
    /\ finished[1] > finished[2]
    /\ repo_commits[Len(repo_commits)].results = SelectSeq(file_list, HasResult)
    /\ Len(repo_commits[Len(repo_commits)].results) >= 2

CommitIds(commits) == [k \in 1..Len(commits) |-> commits[k].commit_id]

\* C21: the commits of a repository are scanned one after the other in the
\* order the source returned them: the commit being scanned is the first one
\* without a recorded result, the recorded results are the source list's
\* first entries in order, all of them once the walk is over, and the
\* deduplicated history is the source order with some commits left out.
C21_CommitsInSourceOrder ==
    /\ CommitIds(repo_commits) = SubSeq(commit_list, 1, Len(repo_commits))
    /\ ppc \in {"fetch_commit_details", "fetch_tree", "commit_gather"}
          => /\ todo >= 1
             /\ Len(repo_commits) = Len(commit_list) - todo
    /\ ppc \in {"Completed", "Reported"}
          => CommitIds(repo_commits) = commit_list
    /\ ppc = "Reported"
          => IsSubSeq(CommitIds(reported.commit_results), commit_list)

\* A walk over two commits was reported; the dedup pass dropped the first
\* commit of the source order and kept the second.
C21_Witness ==
    /\ ppc = "Reported"
    /\ Len(commit_list) = 2
    /\ CommitIds(reported.commit_results) = <<commit_list[2]>>

\* Reading a snippet back: the ellipsis markers at its two ends, the two
\* delimiters, and the three escaped texts before, between and after them.
HasLeftMarker(sn) == Len(sn) >= 3 /\ SubSeq(sn, 1, 3) = Ellipsis
HasRightMarker(sn) == Len(sn) >= 3 /\ SubSeq(sn, Len(sn) - 2, Len(sn)) = Ellipsis

Body(sn) ==
    SubSeq(sn, IF HasLeftMarker(sn) THEN 4 ELSE 1,
               IF HasRightMarker(sn) THEN Len(sn) - 3 ELSE Len(sn))

\* The first position at or after from that holds c, 0 when there is none.
FirstAt(seq, c, from) ==
    LET at == { i \in from..Len(seq) : seq[i] = c }
    IN IF at = {} THEN 0 ELSE CHOOSE i \in at : \A j \in at : i <= j

Entity(e) ==
    CASE e = <<"&", "a", "m", "p", ";">> -> "&"
      [] e = <<"&", "l", "t", ";">> -> "<"
      [] e = <<"&", "g", "t", ";">> -> ">"
      [] OTHER -> "?"

RECURSIVE Unescape(_)
Unescape(seq) ==
    IF seq = <<>> THEN <<>>
    ELSE IF Head(seq) = "&"
         THEN LET n == FirstAt(seq, ";", 1)
              IN IF n = 0 THEN <<"?">>
                 ELSE <<Entity(SubSeq(seq, 1, n))>>
                      \o Unescape(SubSeq(seq, n + 1, Len(seq)))
         ELSE <<Head(seq)>> \o Unescape(Tail(seq))

SnippetParts(sn) ==
    LET body == Body(sn)
        p1 == FirstAt(body, "<", 1)
        q1 == FirstAt(body, ">", 1)
        p2 == FirstAt(body, "<", q1 + 1)
        q2 == FirstAt(body, ">", p2 + 1)
    IN [before |-> Unescape(SubSeq(body, 1, p1 - 1)),
        open |-> SubSeq(body, p1, q1),
        marked |-> Unescape(SubSeq(body, q1 + 1, p2 - 1)),
        close |-> SubSeq(body, p2, q2),
        after |-> Unescape(SubSeq(body, q2 + 1, Len(body)))]

\* C22: the text a snippet carries, its delimiters and ellipsis markers set
\* aside, is content[max(0, s-k):min(len, e+k)] for the match [s, e) and the
\* context k: the text before the opening delimiter is content[max(0, s-k):s],
\* the text between the delimiters is the matched span content[s:e], and the
\* text after the closing delimiter is content[e:min(len, e+k)].
C22_SnippetCarriesWindow ==
    spc = "done" =>
        LET parts == SnippetParts(snippet)
            s == match_obj.start
            e == match_obj.end
            lo == IF s - context > 0 THEN s - context ELSE 0
            hi == IF e + context < Len(content) THEN e + context
                  ELSE Len(content)
        IN /\ parts.open = MarkOpen
           /\ parts.close = MarkClose
           /\ parts.before = Slice(content, lo, s)
           /\ parts.marked = Slice(content, s, e)
           /\ parts.after = Slice(content, e, hi)
           /\ parts.before \o parts.marked \o parts.after
                  = Slice(content, lo, hi)

\* A snippet of a three-character content that leaves out both ends of it and
\* whose matched span is a character escape rewrites.
C22_Witness ==
    /\ spc = "done"
    /\ content = <<"&", "<", "a">>
    /\ match_obj = [start |-> 1, end |-> 2]
    /\ context = 0
    /\ SnippetParts(snippet).marked = <<"<">>

\* C23 as stated: the snippet has an ellipsis marker on the left exactly when
\* the left edge s-k of the window fell before the content's start (and was
\* clamped to it), and one on the right exactly when the right edge e+k fell
\* past the content's end.
C23_MarkerWhereClamped ==
    spc = "done" =>
        /\ HasLeftMarker(snippet) <=> match_obj.start - context < 0
        /\ HasRightMarker(snippet) <=> match_obj.end + context > Len(content)

\* C23 as amended: the snippet has an ellipsis marker on the left exactly
\* when the window starts after the content's start (s-k > 0: text is left
\* out before the snippet), and one on the right exactly when the window ends
\* before the content's end (e+k < len); a side on which the window reaches
\* the content's bound, clamped or not, has no marker.
C23_MarkerWhereCut ==
    spc = "done" =>
        /\ HasLeftMarker(snippet) <=> match_obj.start - context > 0
        /\ HasRightMarker(snippet) <=> match_obj.end + context < Len(content)

\* A snippet whose window was clamped on the left, where it has no marker, and
\* stops short of the content's end on the right, where it has one.
C23_Witness ==
    /\ spc = "done"
    /\ match_obj.start - context < 0
    /\ match_obj.end + context < Len(content)
    /\ ~HasLeftMarker(snippet)
    /\ HasRightMarker(snippet)

\* The file scan results of a repository: those of HEAD and of every commit.
FileResults(repo) ==
    { repo.results[i] : i \in 1..Len(repo.results) }
    \cup UNION { { repo.commit_results[k].results[i] :
                     i \in 1..Len(repo.commit_results[k].results) } :
                 k \in 1..Len(repo.commit_results) }

\* C24: every file scan result of HEAD or of a commit, in the repository as
\* the scans built it and as the dedup pass left it, has at least one match
\* record: a file without a match, or with all its matches suppressed, has no
\* entry.
C24_FileResultHasMatch ==
    \A file \in FileResults(repo_dict) \cup FileResults(scanned) :
        file.matches # <<>>

\* A reported commit that was scanned with two files and keeps one: the other
\* file's only match was in HEAD already.
C24_Witness ==
    /\ rpc = "reported"
    /\ Len(scanned.commit_results) = 1
    /\ Len(repo_dict.commit_results) = 1
    /\ Len(scanned.commit_results[1].results) = 2
    /\ FilePaths(repo_dict.commit_results[1].results) = <<"b.txt">>

\* The baseline before the k-th commit of repo is processed: the signatures
\* of HEAD and of the commits before it.
BaselineBefore(repo, k) ==
    RevisionSignatures(repo.results)
    \cup UNION { RevisionSignatures(repo.commit_results[j].results) :
                 j \in 1..(k - 1) }

\* The files of a commit without the records whose signature is in baseline,
\* and without the files that keep no record.
KeptFiles(files, baseline) ==
    LET Kept(file) ==
            LET New(m) == Signature(file.file_path, m) \notin baseline
            IN  [file_path |-> file.file_path,
                 matches |-> SelectSeq(file.matches, New)]
        NotEmpty(file) == file.matches # <<>>
    IN  SelectSeq([i \in 1..Len(files) |-> Kept(files[i])], NotEmpty)

\* C25: the records the dedup pass removes from a commit are exactly those
\* whose signature was in the baseline before that commit was processed:
\* each reported commit holds the records of the scanned commit whose
\* signature is neither in HEAD nor in an earlier commit, so two records of
\* one commit with the same new signature are both reported.
C25_RemovedWereInBaseline ==
    rpc = "reported" =>
        LET kept == [k \in 1..Len(scanned.commit_results) |->
                        [scanned.commit_results[k] EXCEPT
                            !.results = KeptFiles(@, BaselineBefore(scanned, k))]]
            NotEmpty(commit) == commit.results # <<>>
        IN  repo_dict.commit_results = SelectSeq(kept, NotEmpty)

\* The steps a task's state can take.
TaskSteps ==
    { <<"Pending", "Running">>, <<"Running", "Completed">>,
      <<"Running", "Failed">>, <<"Running", "Cancelling">>,
      <<"Cancelling", "Cancelled">> }

\* C26: a task moves from Pending to Running and from Running to one of
\* Completed, Failed and Cancelled (through the unwinding of its cancel());
\* a task that has ended stays as it is; and cancel() is called on a task,
\* which then ends Cancelled, only when a skip signal is in and main's loop
\* has picked that task, never because another task ended.
C26_TaskLifecycle ==
    [][\A t \in repo_tasks :
          /\ tstate[t] \in Terminal => tstate'[t] = tstate[t]
          /\ tstate'[t] # tstate[t] => <<tstate[t], tstate'[t]>> \in TaskSteps
          /\ (tstate[t] = "Running" /\ tstate'[t] = "Cancelling")
                => (skip_task = "done" /\ task_to_cancel' = t)
          /\ tstate'[t] = "Cancelled" => t \in skipped
      ]_vars

\* C27: whenever main is at the top of its loop, and when the loop has
\* ended, the progress count is the number of tasks less the number of
\* remaining tasks, which is the number of tasks taken off remaining_tasks,
\* all of them ended; once the loop has ended the count is the number of
\* tasks.
C27_ProgressCount ==
    mpc \in {"wait", "ended"} =>
        /\ pbar = Cardinality(repo_tasks) - Cardinality(remaining_tasks)
        /\ pbar = Cardinality(repo_tasks \ remaining_tasks)
        /\ \A t \in repo_tasks \ remaining_tasks : tstate[t] \in Terminal
        /\ mpc = "ended" => pbar = Cardinality(repo_tasks)

\* The loop ended after one task was skipped while another had completed
\* during the await of the skipped one, to be counted by the next turn.
C27_Witness ==
    /\ mpc = "ended"
    /\ pbar = Cardinality(repo_tasks)
    /\ Cardinality(skipped) = 1
    /\ Len(main_results) = 2

\* The names of the entries of a listing that are wanted, in listing order.
RECURSIVE Wanted(_, _, _)
Wanted(entries, field, unwanted) ==
    IF entries = <<>> THEN <<>>
    ELSE IF Head(entries)[field] \in unwanted
         THEN Wanted(Tail(entries), field, unwanted)
    ELSE <<Head(entries)[IF field = "status" THEN "filename" ELSE "path"]>>
             \o Wanted(Tail(entries), field, unwanted)

\* C28: the scans of a commit are started on exactly the files of its
\* changed-file list whose status is not "removed" when the commit has
\* changed files, and on exactly the blob entries of the tree at its tree sha
\* when its detail has no changed file; the scans of HEAD are started on
\* exactly the blob entries of the recursive tree listing.
C28_FilesScanned ==
    lpc = "done" =>
        /\ (ref = "commit" /\ commit_detail.truthy /\ commit_detail.files # <<>>)
              => selected.file_list
                     = Wanted(commit_detail.files, "status", {"removed"})
        /\ (ref = "commit" /\ commit_detail.truthy /\ commit_detail.files = <<>>
                /\ commit_detail.tree_sha /\ tree_body.truthy)
              => /\ selected.scan
                 /\ selected.file_list = Wanted(tree_body.tree, "type", {"tree"})
        /\ (ref = "HEAD" /\ tree_body.truthy /\ tree_body.tree_key)
              => /\ selected.scan
                 /\ selected.file_list = Wanted(tree_body.tree, "type", {"tree"})

\* A commit without changed files whose tree holds a directory and a file:
\* the file alone is scanned.
C28_Witness ==
    /\ lpc = "done"
    /\ ref = "commit"
    /\ commit_detail.truthy
    /\ commit_detail.files = <<>>
    /\ Len(tree_body.tree) = 2
    /\ tree_body.tree[1].type = "tree"
    /\ selected = [scan |-> TRUE, file_list |-> <<"b.txt">>]

\* The commits of pages 1..n of the source, in page order.
RECURSIVE PagesUpTo(_)
PagesUpTo(n) ==
    IF n = 0 THEN <<>> ELSE PagesUpTo(n - 1) \o Answer(source, n).items

\* The source answers some page it is asked for with an empty page: a
\* listed page that is empty or failed, or the end of a source that has
\* nothing more.
EventuallyEmpty ==
    \/ ~source.endless
    \/ \E p \in 1..Len(source.pages) : Falsy(source.pages[p])

\* C29: fetch_all_commits asks for pages 1, 2, 3, ... in this order, each
\* once and with the same page size; every page asked for before the last one
\* was not empty, and the walk has ended exactly when the last page asked for
\* came back empty; the commits collected are those of the earlier pages in
\* page order, short pages included; and the walk ends if the source answers
\* some page with an empty page.
C29_Pagination ==
    /\ [](LET n == Len(requested)
          IN  /\ \A k \in 1..n :
                    requested[k] = [page |-> k, per_page |-> per_page]
              /\ \A k \in 1..(n - 1) : ~Falsy(Answer(source, k))
              /\ gpc = "done" <=> (n >= 1 /\ Falsy(Answer(source, n)))
              /\ all_commits = PagesUpTo(IF gpc = "done" THEN n - 1 ELSE n)
              /\ page = (IF gpc = "done" THEN n ELSE n + 1))
    /\ (EventuallyEmpty => <>(gpc = "done"))

\* A walk that ended on its third request, after a full page and a short one.
C29_Witness ==
    /\ gpc = "done"
    /\ Len(requested) = 3
    /\ Len(Answer(source, 1).items) = per_page
    /\ Len(Answer(source, 2).items) = 1
    /\ all_commits = <<<<1, 1>>, <<1, 2>>, <<2, 1>>>>

\* A step in which process_repo gets the answer to the tree listing of HEAD,
\* to the detail of a commit or to the tree listing of a commit, and the
\* answer is a structural absence: no listing, no detail, or a detail with
\* neither changed files nor a tree sha.
AbsenceStep ==
    /\ ppc \in {"fetch_file_list", "fetch_commit_details", "fetch_tree"}
    /\ ~cancel_called
    /\ ~cancel_called'
    /\ answer' = "absent"

\* C30: a structural absence does not abort the scan of a repository: the
\* revision is taken as having no data (HEAD: no file to scan; a commit: an
\* entry without results), the task is not Failed by it, the loop goes on
\* with the next commit and, after the last one, the task is Completed with
\* an entry for every commit; a task is Failed only by an exception.
C30_AbsenceDoesNotAbort ==
    /\ [](ppc = "Failed" => answer = "raised")
    /\ [](ppc = "Completed" => Len(repo_commits) = Len(commit_list))
    /\ [][AbsenceStep =>
            /\ ppc' # "Failed"
            /\ ppc = "fetch_file_list" =>
                  (ppc' = "head_gather" /\ file_list' = <<>>)
            /\ ppc # "fetch_file_list" =>
                  /\ repo_commits' =
                        Append(repo_commits,
                               [commit_id |-> commit_list[Len(repo_commits) + 1],
                                results |-> <<>>, commit_date |-> "unknown"])
                  /\ ppc' = IF Len(repo_commits') = Len(commit_list)
                            THEN "Completed" ELSE "fetch_commit_details"
         ]_vars

\* The detail of the first of two commits was absent and the walk is at the
\* second commit.
C30_Witness ==
    /\ ppc = "fetch_commit_details"
    /\ answer = "absent"
    /\ Len(commit_list) = 2
    /\ Len(repo_commits) = 1
    /\ repo_commits[1].commit_date = "unknown"

\* The matches a scan of the content meets, in the order of its loops.
RECURSIVE AllMatches(_, _)
AllMatches(txt, pats) ==
    IF pats = <<>> THEN <<>>
    ELSE finditer(Head(pats), txt) \o AllMatches(txt, Tail(pats))

\* C31: the line number of every match record, on each scanning path, is 1
\* plus the number of newline characters of the content before the start of
\* the match: 1 on the first line, and the following line for a match that
\* starts right after a newline.
C31_LineNumber ==
    \A scan \in {head_scan, commit_scan, local_scan} :
        LET found == AllMatches(file_text, patterns)
        IN  \A k \in 1..Len(scan.matches) :
               scan.matches[k].line_number
                  = 1 + Cardinality({ i \in 1..found[k].start :
                                         file_text[i] = "\n" })

\* A match that starts right after a newline is on line 2 and one on the
\* first line is on line 1.
C31_Witness ==
    /\ file_text = <<"k", "\n", "k">>
    /\ patterns = <<"Key">>
    /\ head_scan.done
    /\ Len(head_scan.matches) = 2
    /\ head_scan.matches[1].line_number = 1
    /\ head_scan.matches[2].line_number = 2

\* C37: once the HEAD file scan, the commit file scan and the local-folder
\* scan have all run on the same content with the same pattern set, they have
\* produced the same ordered match records, and agree on whether a file
\* result is produced at all, the empty content included.
C37_SamePaths ==
    (head_scan.done /\ commit_scan.done /\ local_scan.done)
        => /\ head_scan = commit_scan
           /\ commit_scan = local_scan

\* C32: the free slots and the fetch attempts holding a slot always add up
\* to the concurrency ceiling; an attempt that waits for a slot holds none
\* (so none holds two), and an attempt that has left its with-block, by a
\* return (success, 409, other failure), a transport error or a
\* cancellation, holds none.
C32_SlotsConserved ==
    /\ semValue >= 0
    /\ semValue + Cardinality(holds) = Concurrency
    /\ \A f \in Fetchers :
          /\ fpc[f] = "acquire" => f \notin holds
          /\ fpc[f] \in {"returned", "done", "err_sleep", "cancelled"}
                => f \notin holds

\* Every slot is free after a return on 409, while another attempt has left
\* on a transport error.
C32_Witness ==
    /\ semValue = Concurrency
    /\ \E f, g \in Fetchers :
          /\ fpc[f] = "returned" /\ resp[f].status = 409
          /\ fpc[g] = "err_sleep"

\* A 403 that carries no rate-limit-remaining header.
Forbidden(r) == r.status = 403
NoHeader(r) == r.remaining = "absent"

\* C33: a fetch that receives a 403 without the rate-limit-remaining header
\* cools down with no result, and leaves the cool-down only to ask for a
\* slot again or by cancellation of its task; a fetch returns on a 403 only
\* if the header reports a positive remaining budget, and then returns the
\* empty result. So no fetch ever returns on a 403 without the header.
C33_MissingHeaderIsExhaustion ==
    [][\A f \in Fetchers :
          /\ (fpc[f] = "inflight" /\ Forbidden(resp'[f]) /\ NoHeader(resp'[f]))
                => (fpc'[f] = "rl_sleep" /\ result'[f] = "none")
          /\ (fpc[f] = "inflight" /\ fpc'[f] = "returned"
                /\ Forbidden(resp'[f]))
                => /\ HeaderInt(resp'[f].remaining) > 0
                   /\ ~NoHeader(resp'[f])
                   /\ result'[f] = EmptyResult(f)
          /\ (fpc[f] = "rl_sleep" /\ Forbidden(resp[f]) /\ NoHeader(resp[f]))
                => \/ fpc'[f] = "rl_sleep" /\ result'[f] = "none"
                   \/ fpc'[f] = "acquire" /\ result'[f] = "none"
                   \/ fpc'[f] = "cancelled" /\ cancelReq[f[1]]]_vars

\* A file fetch is cooling down, with no result, after a 403 that had no
\* header; the tree listing of its task had returned its body.
C33_Witness ==
    \E f \in Fetchers :
        /\ f[2] >= 1
        /\ fpc[f] = "rl_sleep"
        /\ Forbidden(resp[f]) /\ NoHeader(resp[f])
        /\ result[f] = "none"
        /\ result[<<f[1], 0>>] = "body"

\* C34: in the unbounded pagination a page whose request fails without being
\* retried is taken as an empty page: it is the last page asked for, the
\* walk has ended normally, and what it returns is the commits of the
\* earlier pages, whatever the source holds after the failed page.
C34_FailedPageEndsWalk ==
    \A k \in 1..Len(requested) :
        Answer(source, k).failed
            => /\ k = Len(requested)
               /\ gpc = "done"
               /\ all_commits = PagesUpTo(k - 1)

\* The walk ended on the failure of page 2 with the commits of page 1 only,
\* while page 3 of the source holds commits: the history is truncated.
C34_Witness ==
    /\ gpc = "done"
    /\ Len(requested) = 2
    /\ Answer(source, 2).failed
    /\ Answer(source, 3).items # <<>>
    /\ all_commits = <<<<1, 1>>, <<1, 2>>>>

\* The commit's detail was fetched and its changed-file list is not empty and
\* holds removed files only.
OnlyRemovals ==
    /\ ref = "commit"
    /\ commit_detail.truthy
    /\ commit_detail.files # <<>>
    /\ \A k \in 1..Len(commit_detail.files) :
          commit_detail.files[k].status = "removed"

\* C35: a commit whose changed-file list is not empty and holds removed
\* files only is not scanned, whatever its tree holds: no file is fetched,
\* scan_commit gives no revision result, and the commit is recorded with no
\* results and the date "unknown".
C35_OnlyRemovalsNotScanned ==
    (lpc = "done" /\ OnlyRemovals)
        => /\ ~selected.scan
           /\ selected.file_list = <<>>
           /\ recorded.results = "None"
           /\ recorded.commit_date = "unknown"

\* Such a commit was recorded while its detail names a tree and the tree
\* url lists a blob.
C35_Witness ==
    /\ lpc = "done"
    /\ OnlyRemovals
    /\ Len(commit_detail.files) = 2
    /\ commit_detail.tree_sha
    /\ tree_body.truthy /\ tree_body.tree_key
    /\ \E k \in 1..Len(tree_body.tree) : tree_body.tree[k].type = "blob"
    /\ recorded.commit_date = "unknown"

\* What a task has to return for the responses of its repository, read off
\* the responses alone: the files of each revision that answer with matches,
\* in file-list order, for HEAD and for each commit of the list in list
\* order; a commit that is not scanned has no results and the date "unknown".
AnsweredPaths(scans) ==
    LET Kept(k) == scans[k] = "dict"
    IN  SelectSeq([k \in 1..Len(scans) |-> k], Kept)

AnsweredCommit(k) ==
    LET c == responses.commits[k]
        is_scanned == \/ c.kind = "files"
                      \/ c.kind = "tree" /\ c.tree_out = "body"
    IN  [commit_id |-> responses.list[k],
         results |-> AsFileResults(IF is_scanned THEN AnsweredPaths(c.scans)
                                   ELSE <<>>),
         commit_date |-> IF is_scanned THEN "dated" ELSE "unknown"]

AnsweredRepo ==
    [results |-> AsFileResults(AnsweredPaths(responses.head.scans)),
     commit_results |-> [k \in 1..Len(responses.list) |-> AnsweredCommit(k)]]

TaskEnds(t) == (\E found \in BOOLEAN : TaskCompletes(t, found)) \/ TaskFails(t)

\* main's loop `while remaining_tasks` has ended.
LoopEnded == mpc \in {"ended", "nothing", "reported"}

\* C38: if the requests of every task eventually get a response that is not
\* retried, then eventually every task is in a terminal state and main's loop
\* has ended with no remaining task; and the loop never ends with a task that
\* did not end on its own unless a skip signal cancelled that task.
C38_BatchTerminates ==
    /\ (\A t \in repo_tasks : WF_vars(TaskEnds(t)))
          => <>(/\ LoopEnded
                /\ remaining_tasks = {}
                /\ \A t \in repo_tasks : tstate[t] \in Terminal)
    /\ [](LoopEnded
            => \A t \in repo_tasks :
                  tstate[t] = "Completed"
                     \/ (tstate[t] = "Cancelled" /\ t \in skipped))

====
